---- MODULE Spec2Model ----
(***************************************************************************)
(* A model of the Gaussian-process surrogate of src/gp_utils.py: the       *)
(* GaussProc class (prior, likelihood, posterior), the training pipeline   *)
(* train_gp (get_smoothed_gwb, get_parameter_values, create_gp_kernels,    *)
(* fit_kernel_params, pickle dump), the MCMC state machine that           *)
(* fit_kernel_params drives for every frequency bin, and the consumers of  *)
(* a fitted collection (set_up_predictions, hc_from_gp,                    *)
(* sample_hc_from_gp and its pool of workers).                             *)
(*                                                                         *)
(* Conventions                                                             *)
(*   - Python strings are sequences of one-character strings, so that      *)
(*     str.lower() is computed character by character.                     *)
(*   - Python's None is the empty sequence; a value v that is present is   *)
(*     the one-element sequence <<v>>.                                     *)
(*   - Log-densities are fixed-point integers in units of 1e-3; -inf is    *)
(*     the sentinel NegInf with saturating addition.                       *)
(*   - Hyperparameter vectors are integer lattice points.                  *)
(*   - A double of the spectra is a record: a power of ten with its        *)
(*     exponent in units of 1e-3, or zero, NaN, +inf, -inf.                *)
(*   - Frequency bins and walkers are numbered from 1 (Python: from 0).    *)
(***************************************************************************)
EXTENDS Integers, Sequences, FiniteSets, TLC

VARIABLES
    cfg,          \* the arguments of train_gp
    pc,           \* position of train_gp
    error,        \* the exception that ended the run, if any
    locals,       \* train_gp's locals: gp_freqs, yerr, yobs, yobs_center, pars, xobs
    gp_george,    \* the list of GaussProc objects
    sampler,      \* fit_kernel_params: the list `sampler`
    freq_ind,     \* fit_kernel_params: the loop variable of the fitting / populate loop
    stage,        \* per frequency bin: the MCMC stage it is in
    step,         \* steps completed by the run_mcmc call in progress
    p0,           \* fit_kernel_params: the local p0 (walker positions)
    lnp,          \* fit_kernel_params: the local lnp (Burn-in-1 final log-posteriors)
    pool,         \* fit_kernel_params: the worker pools that are open (the bin each
                  \* was created for and its number of processes);
                  \* sample_hc_from_gp: the tasks its pool has not finished
    files,        \* the files present in the output directory: name and content
    call,         \* the function call under evaluation (unit evaluation of pure functions)
    ret,          \* its result
    results       \* sample_hc_from_gp: the task results the pool has received, in
                  \* the order the workers finished

vars == <<cfg, pc, error, locals, gp_george, sampler, freq_ind, stage, step,
          p0, lnp, pool, files, call, ret, results>>

----------------------------------------------------------------------------
(* Bounds of the model *)

\* train_gp is run with nfreqs in 1..MaxFreqs
MaxFreqs == 2
\* ... and nsamples in 1..MaxSamples
MaxSamples == 1
\* the number of spectra parameters (len(pars)) ranges over 1..MaxPars in unit evaluations
MaxPars == 2
\* the libraries of the unit evaluations have 1..MaxRows samples
MaxRows == 3
\* mtmr_from_m1m2 is evaluated on arrays of 1..MaxBinaries binaries
MaxBinaries == 2

----------------------------------------------------------------------------
(* Python values *)

None == <<>>
Some(v) == <<v>>
IsNone(o) == o = <<>>
Val(o) == o[1]

\* -np.inf
NegInf == -1000000

\* a + b on floats that are finite or -inf
FAdd(a, b) == IF a = NegInf \/ b = NegInf THEN NegInf ELSE a + b

NoError == [type |-> "none", arg |-> <<>>]
Raise(t, a) == [type |-> t, arg |-> a]

RECURSIVE SumSeq(_)
SumSeq(s) == IF s = <<>> THEN 0 ELSE s[1] + SumSeq(Tail(s))

\* variant: the first index of the minimum
argmin(s) == CHOOSE i \in 1..Len(s) :
                /\ \A j \in 1..Len(s) : s[j] >= s[i]
                /\ \A j \in 1..(i - 1) : s[j] > s[i]

\* np.argmax: the first index at which the maximum is attained
argmax(s) == CHOOSE i \in 1..Len(s) :
                /\ \A j \in 1..Len(s) : s[j] <= s[i]
                /\ \A j \in 1..(i - 1) : s[j] < s[i]

----------------------------------------------------------------------------
(* Strings *)

UpperChars == <<"A","B","C","D","E","F","G","H","I","J","K","L","M",
                "N","O","P","Q","R","S","T","U","V","W","X","Y","Z">>
LowerChars == <<"a","b","c","d","e","f","g","h","i","j","k","l","m",
                "n","o","p","q","r","s","t","u","v","w","x","y","z">>

LowerChar(c) == IF \E i \in 1..Len(UpperChars) : UpperChars[i] = c
                THEN LowerChars[CHOOSE i \in 1..Len(UpperChars) : UpperChars[i] = c]
                ELSE c

\* str.lower
str_lower(s) == [i \in 1..Len(s) |-> LowerChar(s[i])]

\* list.index: the first position of x in l, or 0 for the ValueError it raises
list_index(l, x) == IF \E i \in 1..Len(l) : l[i] = x
                    THEN CHOOSE i \in 1..Len(l) :
                           l[i] = x /\ \A j \in 1..(i - 1) : l[j] # x
                    ELSE 0

S_ExpSquaredKernel == <<"E","x","p","S","q","u","a","r","e","d","K","e","r","n","e","l">>
S_expsquaredkernel == <<"e","x","p","s","q","u","a","r","e","d","k","e","r","n","e","l">>
S_EXPSQUAREDKERNEL == <<"E","X","P","S","Q","U","A","R","E","D","K","E","R","N","E","L">>
S_Matern32Kernel == <<"M","a","t","e","r","n","3","2","K","e","r","n","e","l">>
S_matern32kernel == <<"m","a","t","e","r","n","3","2","k","e","r","n","e","l">>
S_MATERN32Kernel == <<"M","A","T","E","R","N","3","2","K","e","r","n","e","l">>
S_ExpKernel == <<"E","x","p","K","e","r","n","e","l">>
S_expKERNEL == <<"e","x","p","K","E","R","N","E","L">>
S_NotAKernel == <<"N","o","t","A","K","e","r","n","e","l">>
S_ExpSquared == <<"E","x","p","S","q","u","a","r","e","d">>
S_Exp_Kernel == <<"E","x","p"," ","K","e","r","n","e","l">>
S_empty == <<>>

S_median == <<"m","e","d","i","a","n">>
S_Median == <<"M","e","d","i","a","n">>
S_MEDIAN == <<"M","E","D","I","A","N">>
S_mean == <<"m","e","a","n">>
S_MEAN == <<"M","E","A","N">>
S_Mean == <<"M","e","a","n">>
S_mode == <<"m","o","d","e">>
S_average == <<"a","v","e","r","a","g","e">>
S_medians == <<"m","e","d","i","a","n","s">>
S_me == <<"m","e">>

\* kernel names a caller may pass
KernelNames == {S_ExpSquaredKernel, S_expsquaredkernel, S_EXPSQUAREDKERNEL,
                S_Matern32Kernel, S_matern32kernel, S_MATERN32Kernel,
                S_ExpKernel, S_expKERNEL,
                S_NotAKernel, S_ExpSquared, S_Exp_Kernel, S_empty}

\* center-statistic selectors a caller may pass
CenterMeasures == {S_median, S_Median, S_MEDIAN, S_mean, S_MEAN, S_Mean,
                   S_mode, S_average, S_medians, S_me, S_empty}

----------------------------------------------------------------------------
(* class GaussProc *)

\* the sampling range of every hyperparameter
PMaxVal == 20
PMinVal == -20

\* [cls.__name__ for cls in kernels.Kernel.__subclasses__()]: the kernel families
kernel_list == <<S_ExpSquaredKernel, S_Matern32Kernel, S_ExpKernel>>

\* list(map(str.lower, kernel_list))
kernel_lcase == [i \in 1..Len(kernel_list) |-> str_lower(kernel_list[i])]

\* len(par_dict)
dict_len(d) == Cardinality(DOMAIN d)

\* variant: the name is matched as written, without lowercasing
GaussProc_init_nocase(x, y, yerr, par_dict, kernel) ==
    LET idx == list_index(kernel_list, kernel)
        n == dict_len(par_dict) + 1
    IN  IF idx = 0
        THEN [error |-> Raise("ValueError", kernel),
              printed |-> <<kernel, kernel_list>>, obj |-> None]
        ELSE [error |-> NoError, printed |-> <<>>,
              obj |-> Some([x |-> x, y |-> y, yerr |-> yerr, par_dict |-> par_dict,
                            kernel |-> kernel_list[idx],
                            pmax |-> [i \in 1..n |-> PMaxVal],
                            pmin |-> [i \in 1..n |-> PMinVal],
                            emcee_flatchain |-> None, emcee_flatlnprob |-> None,
                            emcee_kernel_map |-> None, center_spectra |-> None,
                            kernel_map |-> None, chain |-> None])]

\* variant: the name is stored without validation
GaussProc_init_unchecked(x, y, yerr, par_dict, kernel) ==
    LET n == dict_len(par_dict) + 1
    IN  [error |-> NoError, printed |-> <<>>,
         obj |-> Some([x |-> x, y |-> y, yerr |-> yerr, par_dict |-> par_dict,
                       kernel |-> kernel,
                       pmax |-> [i \in 1..n |-> PMaxVal],
                       pmin |-> [i \in 1..n |-> PMinVal],
                       emcee_flatchain |-> None, emcee_flatlnprob |-> None,
                       emcee_kernel_map |-> None, center_spectra |-> None,
                       kernel_map |-> None, chain |-> None])]

\* GaussProc.__init__: the result is the exception raised (if any), what was
\* printed, and the object constructed (if any)
GaussProc_init(x, y, yerr, par_dict, kernel) ==
    LET idx == list_index(kernel_lcase, str_lower(kernel))
        n == dict_len(par_dict) + 1
    IN  IF idx = 0
        THEN [error |-> Raise("ValueError", str_lower(kernel)),
              printed |-> <<kernel, kernel_list>>, obj |-> None]
        ELSE [error |-> NoError, printed |-> <<>>,
              obj |-> Some([x |-> x, y |-> y, yerr |-> yerr, par_dict |-> par_dict,
                            kernel |-> kernel_list[idx],
                            pmax |-> [i \in 1..n |-> PMaxVal],
                            pmin |-> [i \in 1..n |-> PMinVal],
                            emcee_flatchain |-> None, emcee_flatlnprob |-> None,
                            emcee_kernel_map |-> None, center_spectra |-> None,
                            kernel_map |-> None, chain |-> None])]

\* np.log(1 / d) in units of 1e-3, for the widths d that occur
LogRecip(d) == CASE d = 40 -> -3689
                 [] d = 41 -> -3714
                 [] d = 20 -> -2996
                 [] OTHER -> 0

\* variant: np.any in place of np.all
lnprior_any(self, p) ==
    IF (\E i \in 1..Len(p) : p[i] <= self.pmax[i]) /\ (\E i \in 1..Len(p) : p[i] >= self.pmin[i])
    THEN SumSeq([i \in 1..Len(p) |-> LogRecip(self.pmax[i] - self.pmin[i])])
    ELSE NegInf

\* GaussProc.lnprior
lnprior(self, p) ==
    IF (\A i \in 1..Len(p) : p[i] <= self.pmax[i]) /\ (\A i \in 1..Len(p) : p[i] >= self.pmin[i])
    THEN SumSeq([i \in 1..Len(p) |-> LogRecip(self.pmax[i] - self.pmin[i])])
    ELSE NegInf

\* gp.lnlikelihood(self.y, quiet=True) when the factorization succeeds: a finite
\* value that depends on the hyperparameters and on the bin's training targets
GPLogLike(self, p) ==
    -100 * (self.y.bin + SumSeq([i \in 1..Len(p) |-> (p[i] - 1) * (p[i] - 1)]))

\* gp.compute(self.x, self.yerr): whether the factorization of the covariance at
\* exp(p) raises LinAlgError.  It does for long length scales (the covariance
\* tends to a rank-one matrix); how long depends on the bin's data.
GPSingular(self, p) ==
    \E i \in 2..Len(p) : p[i] >= 2 - self.y.bin

\* variant: no except clause, LinAlgError propagates
lnlike_uncaught(self, p) ==
    IF list_index(kernel_list, self.kernel) = 0
    THEN [error |-> Raise("AttributeError", self.kernel), val |-> NegInf]
    ELSE IF GPSingular(self, p)
         THEN [error |-> Raise("LinAlgError", <<>>), val |-> NegInf]
         ELSE [error |-> NoError, val |-> GPLogLike(self, p)]

\* GaussProc.lnlike
lnlike(self, p) ==
    IF list_index(kernel_list, self.kernel) = 0
    THEN [error |-> Raise("AttributeError", self.kernel), val |-> NegInf]
    ELSE IF GPSingular(self, p)
         THEN [error |-> NoError, val |-> NegInf]
         ELSE [error |-> NoError, val |-> GPLogLike(self, p)]

\* variant: the likelihood is not evaluated outside the box
lnprob_shortcut(self, p) ==
    LET prior == lnprior(self, p)
        like == lnlike(self, p)
    IN  IF prior = NegInf
        THEN [error |-> NoError, val |-> NegInf]
        ELSE [error |-> like.error, val |-> FAdd(prior, like.val)]

\* GaussProc.lnprob
lnprob(self, p) ==
    LET prior == lnprior(self, p)
        like == lnlike(self, p)
    IN  [error |-> like.error, val |-> FAdd(prior, like.val)]

----------------------------------------------------------------------------
(* Floating-point values.  A positive double is 10^(v/1000), written Pow(v);
   the value of a logarithm is v/1000, written Fin(v).  The non-finite doubles
   and zero are values of their own. *)

Pow(e) == [k |-> "pow", v |-> e]
NegPow(e) == [k |-> "negpow", v |-> e]
Fin(m) == [k |-> "fin", v |-> m]
Zero == [k |-> "zero", v |-> 0]
NaN == [k |-> "nan", v |-> 0]
PInf == [k |-> "inf", v |-> 0]
NInf == [k |-> "ninf", v |-> 0]

np_isnan(x) == x.k = "nan"
np_isfinite(x) == x.k \in {"pow", "negpow", "fin", "zero"}

\* x**2
np_square(x) ==
    CASE x.k \in {"pow", "negpow"} -> Pow(2 * x.v)
      [] x.k = "zero" -> Zero
      [] x.k \in {"inf", "ninf"} -> PInf
      [] OTHER -> NaN

\* np.log10 of a double that is not itself a logarithm
np_log10(x) ==
    CASE x.k = "pow" -> Fin(x.v)
      [] x.k = "zero" -> NInf
      [] x.k = "inf" -> PInf
      [] OTHER -> NaN

\* the literal 1e-40
FloorExp == -40000

\* gwb_spectra < 1e-40 (a comparison with NaN is False)
below_floor(x) ==
    \/ x.k \in {"zero", "negpow", "ninf"}
    \/ x.k = "pow" /\ x.v < FloorExp

\* variant: NaN is not looked for
clamp_low_nonan(x) == IF below_floor(x) THEN Pow(FloorExp) ELSE x

\* gwb_spectra[low_ind] = 1e-40, for one element
clamp_low(x) == IF below_floor(x) \/ np_isnan(x) THEN Pow(FloorExp) ELSE x

\* the k-th smallest entry of a non-empty sequence of integers
Kth(s, n) ==
    CHOOSE x \in {s[i] : i \in 1..Len(s)} :
        /\ Cardinality({i \in 1..Len(s) : s[i] < x}) < n
        /\ n <= Cardinality({i \in 1..Len(s) : s[i] <= x})

\* 1000 * log10(n) for the small counts n that occur
Log10Milli == <<0, 301, 477, 602, 699, 778>>

\* the arithmetic mean of doubles that are >= 0 and not NaN; terms a decade or
\* more below the largest are below the resolution kept and are dropped
lin_mean(xs) ==
    LET top == {i \in 1..Len(xs) : xs[i].k = "pow"}
    IN  IF \E i \in 1..Len(xs) : xs[i].k = "inf" THEN PInf
        ELSE IF top = {} THEN Zero
        ELSE LET emax == CHOOSE e \in {xs[i].v : i \in top} :
                             \A i \in top : xs[i].v <= e
                 cnt == Cardinality({i \in top : xs[i].v = emax})
             IN  Pow(emax + Log10Milli[cnt] - Log10Milli[Len(xs)])

\* the rank of a double that is >= 0 in the sort order
lin_key(x) ==
    CASE x.k = "zero" -> -1000000
      [] x.k = "inf" -> 1000000
      [] OTHER -> x.v

\* np.mean(gwb_spectra, axis=-1), for one sample and frequency
np_mean_lin(xs) ==
    IF \E i \in 1..Len(xs) : np_isnan(xs[i]) THEN NaN ELSE lin_mean(xs)

\* np.median(gwb_spectra, axis=-1), for one sample and frequency
np_median_lin(xs) ==
    LET n == Len(xs)
        keys == [i \in 1..n |-> lin_key(xs[i])]
        at(r) == xs[CHOOSE i \in 1..n : keys[i] = Kth(keys, r)]
    IN  IF \E i \in 1..n : np_isnan(xs[i]) THEN NaN
        ELSE IF n % 2 = 1 THEN at((n + 1) \div 2)
        ELSE lin_mean(<<at(n \div 2), at(n \div 2 + 1)>>)

\* floor(sqrt(x)) by bisection
RECURSIVE ISqrtIn(_, _, _)
ISqrtIn(x, lo, hi) ==
    IF lo >= hi THEN lo
    ELSE LET mid == (lo + hi + 1) \div 2
         IN  IF mid * mid <= x THEN ISqrtIn(x, mid, hi) ELSE ISqrtIn(x, lo, mid - 1)

ISqrt(x) == ISqrtIn(x, 0, 40000)

\* np.std(np.log10(gwb_spectra), axis=-1), for one sample and frequency:
\* a non-finite entry makes the mean non-finite and the deviations NaN
np_std(ys) ==
    LET n == Len(ys)
        mean == SumSeq([i \in 1..n |-> ys[i].v]) \div n
    IN  IF \E i \in 1..n : ~np_isfinite(ys[i]) THEN NaN
        ELSE Fin(ISqrt(SumSeq([i \in 1..n |-> (ys[i].v - mean) * (ys[i].v - mean)]) \div n))

\* a - b on values of logarithms
FSub(a, b) ==
    IF np_isnan(a) \/ np_isnan(b) THEN NaN
    ELSE IF np_isfinite(a) /\ np_isfinite(b) THEN Fin(a.v - b.v)
    ELSE IF np_isfinite(b) THEN a
    ELSE IF np_isfinite(a) THEN (IF b.k = "inf" THEN NInf ELSE PInf)
    ELSE IF a.k = b.k THEN NaN ELSE a

\* the sum of values of logarithms divided by their number
log_mean(ys) ==
    LET n == Len(ys)
        pinf == \E i \in 1..n : ys[i].k = "inf"
        ninf == \E i \in 1..n : ys[i].k = "ninf"
    IN  IF n = 0 \/ (\E i \in 1..n : np_isnan(ys[i])) \/ (pinf /\ ninf) THEN NaN
        ELSE IF pinf THEN PInf
        ELSE IF ninf THEN NInf
        ELSE Fin(SumSeq([i \in 1..n |-> ys[i].v]) \div n)

\* np.mean(yobs, axis=0), for one frequency
np_mean_log(ys) == log_mean(ys)

log_key(y) ==
    CASE y.k = "ninf" -> -1000000
      [] y.k = "inf" -> 1000000
      [] OTHER -> y.v

\* np.median(yobs, axis=0), for one frequency
np_median_log(ys) ==
    LET n == Len(ys)
        keys == [i \in 1..n |-> log_key(ys[i])]
        at(r) == ys[CHOOSE i \in 1..n : keys[i] = Kth(keys, r)]
    IN  IF n = 0 \/ (\E i \in 1..n : np_isnan(ys[i])) THEN NaN
        ELSE IF n % 2 = 1 THEN at((n + 1) \div 2)
        ELSE log_mean(<<at(n \div 2), at(n \div 2 + 1)>>)

\* ssig.savgol_filter(center, 7, 3), for the spectrum of one sample.  The
\* filter fits a cubic to the window around each point; the spectra of the
\* model have at most four points, which lie on one cubic, so that a finite
\* spectrum is returned as it is.  A non-finite entry spoils every fit whose
\* window holds it.
savgol_filter(row) ==
    IF \A f \in 1..Len(row) : np_isfinite(row[f]) THEN row
    ELSE [f \in 1..Len(row) |-> NaN]

----------------------------------------------------------------------------
(* The preprocessing functions.  An array is a sequence of rows; a column
   handed to a GaussProc carries the frequency bin, the test offset and the
   center statistic it was computed with beside its values. *)

\* int(x * frac) for a fraction given in percent
int_frac(x, pct) == (x * pct) \div 100

Min(a, b) == IF a <= b THEN a ELSE b

\* the branch taken by the if / elif / else on center_measure.lower()
\* variant: anything but 'mean' is taken for 'median'
center_branch_default(center_measure) ==
    IF str_lower(center_measure) = S_mean THEN "mean" ELSE "median"

center_branch(center_measure) ==
    IF str_lower(center_measure) = S_median THEN "median"
    ELSE IF str_lower(center_measure) = S_mean THEN "mean"
    ELSE "raise"

\* spectra["gwb"][test_ind:, :nfreqs, :]**2
slice_squared(spectra, test_ind, nf) ==
    [i \in 1..(spectra.nsamp - test_ind) |->
       [f \in 1..nf |->
          [r \in 1..Len(spectra.gwb[i + test_ind][f]) |->
             np_square(spectra.gwb[i + test_ind][f][r])]]]

\* variant: the squares and the floor are written through to the library
library_written(spectra, gwb_spectra, test_ind) ==
    [spectra EXCEPT !.gwb =
        [s \in 1..spectra.nsamp |->
           [f \in 1..Len(spectra.gwb[s]) |->
              IF s > test_ind /\ f <= Len(gwb_spectra[s - test_ind])
              THEN gwb_spectra[s - test_ind][f]
              ELSE spectra.gwb[s][f]]]]

\* the library after the call: the slice is read into a new array, ** makes
\* another, and the floor is assigned into that one
library_after(spectra, gwb_spectra, test_ind) == spectra

\* get_smoothed_gwb
get_smoothed_gwb(spectra, nfreqs, test_pct, center_measure) ==
    LET test_ind == int_frac(spectra.nsamp, test_pct)
        nf == Min(nfreqs, spectra.nfreq)
        rows == spectra.nsamp - test_ind
        squared(i, f) == slice_squared(spectra, test_ind, nf)[i][f]
        clamped(i, f) == [r \in 1..Len(squared(i, f)) |-> clamp_low(squared(i, f)[r])]
        gwb_spectra == [i \in 1..rows |-> [f \in 1..nf |-> clamped(i, f)]]
        branch == center_branch(center_measure)
        center(i, f) == IF branch = "median"
                        THEN np_log10(np_median_lin(clamped(i, f)))
                        ELSE np_log10(np_mean_lin(clamped(i, f)))
        smooth_center(i) == savgol_filter([f \in 1..nf |-> center(i, f)])
        logs(i, f) == [r \in 1..Len(clamped(i, f)) |-> np_log10(clamped(i, f)[r])]
        err(i, f) == np_std(logs(i, f))
        printed == IF \E i \in 1..rows, f \in 1..nf : np_isnan(err(i, f))
                   THEN <<"Got a NAN issue">> ELSE <<>>
        yobs_center(f) == IF branch = "median"
                          THEN np_median_log([i \in 1..rows |-> smooth_center(i)[f]])
                          ELSE np_mean_log([i \in 1..rows |-> smooth_center(i)[f]])
        after == library_after(spectra, gwb_spectra, test_ind)
    IN  IF branch = "raise"
        THEN [error |-> Raise("ValueError", center_measure), printed |-> <<>>,
              out |-> None, gwb_spectra |-> gwb_spectra, logs |-> <<>>,
              smooth_center |-> <<>>, spectra |-> after]
        ELSE [error |-> NoError, printed |-> printed,
              out |-> Some([gp_freqs |-> [f \in 1..nf |-> f],
                            yerr |-> [f \in 1..nf |->
                                        [bin |-> f, test_ind |-> test_ind,
                                         vals |-> [i \in 1..rows |-> err(i, f)]]],
                            yobs |-> [f \in 1..nf |->
                                        [bin |-> f, test_ind |-> test_ind, stat |-> branch,
                                         vals |-> [i \in 1..rows |->
                                                     FSub(smooth_center(i)[f],
                                                          yobs_center(f))]]],
                            yobs_center |-> [f \in 1..nf |->
                                               [bin |-> f, stat |-> branch,
                                                val |-> yobs_center(f)]]]),
              gwb_spectra |-> gwb_spectra,
              logs |-> [i \in 1..rows |-> [f \in 1..nf |-> logs(i, f)]],
              smooth_center |-> [i \in 1..rows |-> smooth_center(i)],
              spectra |-> after]

\* x > 100 for a parameter value
gt_hundred(x) ==
    \/ x.k = "inf"
    \/ x.k = "pow" /\ x.v > 2000
    \/ x.k = "fin" /\ x.v > 100000

\* variant: the test offset is left out of the row index
get_parameter_values_nooffset(spectra, test_pct) ==
    LET test_ind == int_frac(spectra.nsamp, test_pct)
        rows == spectra.nsamp - test_ind
    IN  [rows |-> rows, test_ind |-> test_ind, pars |-> spectra.pars,
         vals |-> [i \in 1..rows |-> [k \in 1..Len(spectra.pars) |->
                     spectra.sample_params[i][k]]]]

\* variant: the threshold is tested on every row of the library
get_parameter_values_anyrow(spectra, test_pct) ==
    LET test_ind == int_frac(spectra.nsamp, test_pct)
        rows == spectra.nsamp - test_ind
        pars == spectra.pars
        xobs == [i \in 1..rows |-> [k \in 1..Len(pars) |->
                   spectra.sample_params[i + test_ind][k]]]
        amp == list_index(pars, "mmb_amp")
        to_log == amp # 0 /\ \E s \in 1..spectra.nsamp :
                                gt_hundred(spectra.sample_params[s][amp])
    IN  [rows |-> rows, test_ind |-> test_ind, pars |-> pars,
         vals |-> [i \in 1..rows |-> [k \in 1..Len(pars) |->
                     IF to_log /\ k = amp THEN np_log10(xobs[i][k]) ELSE xobs[i][k]]]]

\* get_parameter_values
get_parameter_values(spectra, test_pct) ==
    LET test_ind == int_frac(spectra.nsamp, test_pct)
        rows == spectra.nsamp - test_ind
        pars == spectra.pars
        xobs == [i \in 1..rows |-> [k \in 1..Len(pars) |->
                   spectra.sample_params[i + test_ind][k]]]
        amp == list_index(pars, "mmb_amp")
        to_log == amp # 0 /\ \E i \in 1..rows : gt_hundred(xobs[i][amp])
    IN  [rows |-> rows, test_ind |-> test_ind, pars |-> pars,
         vals |-> [i \in 1..rows |-> [k \in 1..Len(pars) |->
                     IF to_log /\ k = amp THEN np_log10(xobs[i][k]) ELSE xobs[i][k]]]]

SeqToSet(s) == {s[i] : i \in 1..Len(s)}

\* the rank of a parameter value in the order of the doubles; the finite
\* entries of one column are all amplitudes or all logarithms
par_key(x) ==
    CASE x.k = "ninf" -> -3000000
      [] x.k = "negpow" -> -2000000 - x.v
      [] x.k = "zero" -> -1000000
      [] x.k = "inf" -> 3000000
      [] OTHER -> x.v

\* np.min(xobs[:, ind]) and np.max(xobs[:, ind]) of a non-empty column
np_min(col) ==
    IF \E i \in 1..Len(col) : np_isnan(col[i]) THEN NaN
    ELSE col[CHOOSE i \in 1..Len(col) : \A j \in 1..Len(col) :
                 par_key(col[i]) <= par_key(col[j])]
np_max(col) ==
    IF \E i \in 1..Len(col) : np_isnan(col[i]) THEN NaN
    ELSE col[CHOOSE i \in 1..Len(col) : \A j \in 1..Len(col) :
                 par_key(col[i]) >= par_key(col[j])]

\* xobs[:, ind]
column(xobs, ind) == [i \in 1..Len(xobs.vals) |-> xobs.vals[i][ind]]

\* the par_dict built by lines 337-342; a name that occurs twice keeps its
\* last column
par_dict_of(pars, xobs) ==
    [par \in SeqToSet(pars) |->
       LET ind == CHOOSE k \in 1..Len(pars) :
                     pars[k] = par /\ \A j \in (k + 1)..Len(pars) : pars[j] # par
       IN  [min |-> np_min(column(xobs, ind)), max |-> np_max(column(xobs, ind))]]

\* variant: every model receives the columns of the first frequency
create_gp_kernels_firstcol(gp_freqs, pars, xobs, yerr, yobs, kernel) ==
    LET par_dict == par_dict_of(pars, xobs)
        made == [f \in 1..Len(gp_freqs) |->
                   GaussProc_init(xobs, yobs[1], yerr[1], par_dict, kernel)]
        getattr_ok(f) == list_index(kernel_list, Val(made[f].obj).kernel) # 0
        bad == {f \in 1..Len(gp_freqs) :
                  made[f].error # NoError \/ ~getattr_ok(f)}
    IN  IF Len(pars) > 0 /\ Len(xobs.vals) = 0
        THEN [error |-> Raise("ValueError", "zero-size array to reduction operation"),
              printed |-> <<>>, gp_george |-> <<>>, num_kpars |-> 0]
        ELSE IF bad # {}
        THEN LET f == CHOOSE g \in bad : \A h \in bad : g <= h
             IN  [error |-> IF made[f].error # NoError THEN made[f].error
                            ELSE Raise("AttributeError", Val(made[f].obj).kernel),
                  printed |-> made[f].printed,
                  gp_george |-> <<>>, num_kpars |-> 0]
        ELSE IF Len(gp_freqs) = 0
        THEN [error |-> Raise("UnboundLocalError", <<>>), printed |-> <<>>,
              gp_george |-> <<>>, num_kpars |-> 0]
        ELSE [error |-> NoError, printed |-> <<>>,
              gp_george |-> [f \in 1..Len(gp_freqs) |-> Val(made[f].obj)],
              num_kpars |-> Len(pars) + 1]

\* create_gp_kernels: the GaussProc objects are constructed bin by bin; the first
\* exception ends the call
create_gp_kernels(gp_freqs, pars, xobs, yerr, yobs, kernel) ==
    LET par_dict == par_dict_of(pars, xobs)
        made == [f \in 1..Len(gp_freqs) |->
                   GaussProc_init(xobs, yobs[f], yerr[f], par_dict, kernel)]
        getattr_ok(f) == list_index(kernel_list, Val(made[f].obj).kernel) # 0
        bad == {f \in 1..Len(gp_freqs) :
                  made[f].error # NoError \/ ~getattr_ok(f)}
    IN  IF Len(pars) > 0 /\ Len(xobs.vals) = 0
        THEN [error |-> Raise("ValueError", "zero-size array to reduction operation"),
              printed |-> <<>>, gp_george |-> <<>>, num_kpars |-> 0]
        ELSE IF bad # {}
        THEN LET f == CHOOSE g \in bad : \A h \in bad : g <= h
             IN  [error |-> IF made[f].error # NoError THEN made[f].error
                            ELSE Raise("AttributeError", Val(made[f].obj).kernel),
                  printed |-> made[f].printed,
                  gp_george |-> <<>>, num_kpars |-> 0]
        ELSE IF Len(gp_freqs) = 0
        THEN [error |-> Raise("UnboundLocalError", <<>>), printed |-> <<>>,
              gp_george |-> <<>>, num_kpars |-> 0]
        ELSE [error |-> NoError, printed |-> <<>>,
              gp_george |-> [f \in 1..Len(gp_freqs) |-> Val(made[f].obj)],
              num_kpars |-> Len(pars) + 1]

----------------------------------------------------------------------------
(* train_gp: the inputs of a run *)

\* nwalkers (the ensemble sampler needs an even number of walkers)
WalkerCounts == {2}

\* a spectral library of nsamp samples, nfreq frequencies and three realizations:
\* characteristic strains around 1e-14, whose level and scatter grow with the
\* sample, and one value of every parameter per sample
Library(nsamp, nfreq, pars) ==
    [nsamp |-> nsamp, nfreq |-> nfreq, pars |-> pars,
     gwb |-> [s \in 1..nsamp |-> [f \in 1..nfreq |-> [r \in 1..3 |->
                Pow(200 * s + 20 * r * s - 500 * f - 14000)]]],
     sample_params |-> [s \in 1..nsamp |-> [k \in 1..Len(pars) |->
                          Pow(100 * s + 10 * k)]]]

\* the spectral library read by train_gp
Spectra == Library(2, MaxFreqs, <<"p1">>)

\* burn_frac and test_frac, in percent
BurnPcts == {50, 100}
TestPcts == {0}

RunCenterMeasures == {S_MEAN, S_mode}
RunKernels == {S_expsquaredkernel, S_NotAKernel}

\* "trained_gp_" + spectra_file.parent.name + ".pkl", and the name with the
\* date and time of the run between stem and suffix
DefaultFile == "trained_gp.pkl"
DatedFile == "trained_gp<date>.pkl"

\* a file of the output directory
File(name, content) == [name |-> name, content |-> content]

\* Path.exists()
exists(fs, name) == \E f \in fs : f.name = name

\* open(name, "wb") and pickle.dump(content): the file is created or truncated
\* and written
written(fs, name, content) == {f \in fs : f.name # name} \cup {File(name, content)}

\* variant: the default file is written whether it exists or not
save_path_default(fs) == DefaultFile

\* lines 170-180: the path the collection is written to
save_path(fs) == IF exists(fs, DefaultFile) THEN DatedFile ELSE DefaultFile

Configs == [spectra : {Spectra}, nfreqs : 1..MaxFreqs, nwalkers : WalkerCounts,
            nsamples : 1..MaxSamples, burn_pct : BurnPcts, test_pct : TestPcts,
            center_measure : RunCenterMeasures, kernel : RunKernels]

NoCall == [fn |-> "none", args |-> <<>>]

Init ==
    /\ cfg \in Configs
    /\ pc = "start"
    /\ error = NoError
    /\ locals = None
    /\ gp_george = <<>>
    /\ sampler = <<>>
    /\ freq_ind = 0
    /\ stage = <<>>
    /\ step = 0
    /\ p0 = <<>>
    /\ lnp = <<>>
    /\ pool = {}
    /\ files = {}
    /\ call = NoCall
    /\ ret = None
    /\ results = <<>>

\* variant: the pool of the block in progress is left open
Fail_leak(e) ==
    /\ pc' = "failed"
    /\ error' = e
    /\ pool' = pool

\* an exception propagates out of train_gp; a `with Pool` block in progress
\* closes its pool on the way
Fail(e) ==
    /\ pc' = "failed"
    /\ error' = e
    /\ pool' = {}

\* lines 151-155
TrainGp_get_smoothed_gwb ==
    /\ pc = "start"
    /\ LET r == get_smoothed_gwb(cfg.spectra, cfg.nfreqs, cfg.test_pct, cfg.center_measure)
       IN  IF r.error # NoError
           THEN /\ Fail(r.error)
                /\ UNCHANGED locals
           ELSE /\ pc' = "smoothed"
                /\ locals' = r.out
                /\ UNCHANGED <<error, pool>>
    /\ UNCHANGED <<results, cfg, gp_george, sampler, freq_ind, stage, step, p0, lnp, files, call, ret>>

\* lines 157-159
TrainGp_get_parameter_values ==
    /\ pc = "smoothed"
    /\ pc' = "params"
    /\ locals' = Some([gp_freqs |-> Val(locals).gp_freqs, yerr |-> Val(locals).yerr,
                       yobs |-> Val(locals).yobs, yobs_center |-> Val(locals).yobs_center,
                       pars |-> cfg.spectra.pars,
                       xobs |-> get_parameter_values(cfg.spectra, cfg.test_pct)])
    /\ UNCHANGED <<results, cfg, error, gp_george, sampler, freq_ind, stage, step, p0, lnp,
                   pool, files, call, ret>>

\* line 161
TrainGp_create_gp_kernels ==
    /\ pc = "params"
    /\ LET l == Val(locals)
           r == create_gp_kernels(l.gp_freqs, l.pars, l.xobs, l.yerr, l.yobs, cfg.kernel)
       IN  IF r.error # NoError
           THEN /\ Fail(r.error)
                /\ UNCHANGED <<locals, gp_george>>
           ELSE /\ pc' = "kernels"
                /\ gp_george' = r.gp_george
                /\ locals' = Some([gp_freqs |-> l.gp_freqs, yerr |-> l.yerr, yobs |-> l.yobs,
                                   yobs_center |-> l.yobs_center, pars |-> l.pars,
                                   xobs |-> l.xobs, num_kpars |-> r.num_kpars])
                /\ UNCHANGED <<error, pool>>
    /\ UNCHANGED <<results, cfg, sampler, freq_ind, stage, step, p0, lnp, files, call, ret>>

----------------------------------------------------------------------------
(* fit_kernel_params: the ensemble sampler *)

\* int(burn_frac * nsamples) and int(nsamples)
NBurn(c) == int_frac(c.nsamples, c.burn_pct)
NProd(c) == c.nsamples

RunStages == {"Burn1", "Burn2", "Production"}

\* the number of steps of the run_mcmc call of a stage
NSteps(st) == IF st = "Production" THEN NProd(cfg) ELSE NBurn(cfg)

\* np.log(np.full(ndim, 1.0))
LogOnes(ndim) == [i \in 1..ndim |-> 0]

\* the lattice points the stretch move may propose
Points(ndim) == {LogOnes(ndim),
                 [i \in 1..ndim |-> IF i = 1 THEN 1 ELSE -1],
                 [i \in 1..ndim |-> IF i = 1 THEN 21 ELSE 0],
                 [i \in 1..ndim |-> IF i = 1 THEN 0 ELSE 2]}

\* an initial walker position: a lattice point plus Gaussian noise of scale
\* 1e-eps (eps = 0: no noise added)
Pos(at, eps) == [at |-> at, eps |-> eps]

\* lines 398-401
initial_p0(nwalkers, ndim) == [w \in 1..nwalkers |-> Pos(LogOnes(ndim), 4)]

\* variant: the walkers are reseeded around walker 0
reseed_first(pos, lp) == [w \in DOMAIN pos |-> Pos(pos[1], 8)]

\* lines 409-410
reseed(pos, lp) == [w \in DOMAIN pos |-> Pos(pos[argmax(lp)], 8)]

\* emcee.EnsembleSampler(...): chain and lnprob are the stored history (flattened
\* step by step), pos and poslnp the current walkers (the noise of an initial
\* position is below the lattice's resolution); tags records the stage
\* during which each stored entry was produced
NewSampler == [chain |-> <<>>, lnprob |-> <<>>, tags |-> <<>>, pos |-> <<>>, poslnp |-> <<>>]

\* variant: the history is kept
sampler_keep(s) == s

\* sampler.reset()
sampler_reset(s) == [s EXCEPT !.chain = <<>>, !.lnprob = <<>>, !.tags = <<>>]

\* the Metropolis rule of the stretch move: a proposal of log-posterior -inf is
\* never taken, a finite one is always taken from -inf, otherwise the draw u decides
Accepts(cur, new, u) == IF new = NegInf THEN FALSE
                        ELSE IF cur = NegInf THEN TRUE
                        ELSE u

FirstError(evals) ==
    LET bad == {w \in DOMAIN evals : evals[w].error # NoError}
    IN  IF bad = {} THEN NoError
        ELSE evals[CHOOSE w \in bad : \A v \in bad : w <= v].error

\* one step of run_mcmc: every walker's proposal is evaluated with lnprob
mcmc_step(s, self, prop, acc, tag) ==
    LET evals == [w \in DOMAIN s.pos |-> lnprob(self, prop[w])]
        take == [w \in DOMAIN s.pos |-> Accepts(s.poslnp[w], evals[w].val, acc[w])]
        pos == [w \in DOMAIN s.pos |-> IF take[w] THEN prop[w] ELSE s.pos[w]]
        plnp == [w \in DOMAIN s.pos |-> IF take[w] THEN evals[w].val ELSE s.poslnp[w]]
    IN  [error |-> FirstError(evals),
         sampler |-> [chain |-> s.chain \o pos, lnprob |-> s.lnprob \o plnp,
                      tags |-> s.tags \o [w \in DOMAIN s.pos |-> tag],
                      pos |-> pos, poslnp |-> plnp]]

\* the start of run_mcmc(pos0, n): lnprob is evaluated at the initial positions
mcmc_start(s, self, pos0) ==
    LET evals == [w \in DOMAIN pos0 |-> lnprob(self, pos0[w].at)]
    IN  [error |-> FirstError(evals),
         sampler |-> [s EXCEPT !.pos = [w \in DOMAIN pos0 |-> pos0[w].at],
                               !.poslnp = [w \in DOMAIN pos0 |-> evals[w].val]]]

NFreqs == Len(Val(locals).gp_freqs)
Ndim == Val(locals).num_kpars
Walkers == 1..cfg.nwalkers

\* lines 386-387
FitBegin ==
    /\ pc = "kernels"
    /\ pc' = "fit"
    /\ sampler' = [f \in 1..NFreqs |-> None]
    /\ stage' = [f \in 1..NFreqs |-> "Pending"]
    /\ freq_ind' = 1
    /\ UNCHANGED <<results, cfg, error, locals, gp_george, step, p0, lnp, pool, files, call, ret>>

\* multiprocessing.cpu_count() on the hosts of the fit
FitCpuCounts == {1, 2}

\* min(nwalkers // 2, cpu_count())
pool_processes(nwalkers, cpus) == Min(nwalkers \div 2, cpus)

\* Pool(processes), created in the iteration of bin `bin`
Pool(bin, processes) == [bin |-> bin, processes |-> processes]

\* variant: the bins are taken in any order
FitBeginBin_any ==
    /\ pc = "fit"
    /\ pool = {}
    /\ \E f \in 1..NFreqs :
        /\ stage[f] = "Pending"
        /\ freq_ind' = f
        /\ \E cpus \in FitCpuCounts :
              pool' = pool \cup {Pool(f, pool_processes(cfg.nwalkers, cpus))}
        /\ sampler' = [sampler EXCEPT ![f] = Some(NewSampler)]
        /\ p0' = initial_p0(cfg.nwalkers, Ndim)
        /\ stage' = [stage EXCEPT ![f] = "Initialize"]
    /\ step' = 0
    /\ UNCHANGED <<results, cfg, pc, error, locals, gp_george, lnp, files, call, ret>>

\* lines 388-401: the next iteration of the loop over the bins opens its pool
\* (a pool of no process raises ValueError), sets up the sampler and
\* initializes the walkers
FitBeginBin ==
    /\ pc = "fit"
    /\ freq_ind \in 1..NFreqs
    /\ stage[freq_ind] = "Pending"
    /\ \E cpus \in FitCpuCounts :
          IF pool_processes(cfg.nwalkers, cpus) < 1
          THEN /\ Fail(Raise("ValueError", "processes"))
               /\ UNCHANGED <<sampler, p0, stage, step>>
          ELSE /\ pool' = pool \cup {Pool(freq_ind, pool_processes(cfg.nwalkers, cpus))}
               /\ sampler' = [sampler EXCEPT ![freq_ind] = Some(NewSampler)]
               /\ p0' = initial_p0(cfg.nwalkers, Ndim)
               /\ stage' = [stage EXCEPT ![freq_ind] = "Initialize"]
               /\ step' = 0
               /\ UNCHANGED <<pc, error>>
    /\ UNCHANGED <<results, cfg, locals, gp_george, freq_ind, lnp, files, call, ret>>

\* the call of run_mcmc(pos0, ...) that opens stage st of the bin in progress
StartRun(s, pos0, st) ==
    LET r == mcmc_start(s, gp_george[freq_ind], pos0)
    IN  /\ stage' = [stage EXCEPT ![freq_ind] = st]
        /\ step' = 0
        /\ sampler' = [sampler EXCEPT ![freq_ind] = Some(r.sampler)]
        /\ IF r.error # NoError
           THEN Fail(r.error)
           ELSE UNCHANGED <<pc, error, pool>>

\* line 404: run_mcmc(p0, int(burn_frac * nsamples)) is called
FitBurnIn1Start ==
    /\ pc = "fit"
    /\ freq_ind \in 1..NFreqs
    /\ stage[freq_ind] = "Initialize"
    /\ StartRun(Val(sampler[freq_ind]), p0, "Burn1")
    /\ UNCHANGED <<results, cfg, locals, gp_george, freq_ind, p0, lnp, files, call, ret>>

\* one step of the run_mcmc call in progress
McmcStep ==
    /\ pc = "fit"
    /\ freq_ind \in 1..NFreqs
    /\ stage[freq_ind] \in RunStages
    /\ step < NSteps(stage[freq_ind])
    /\ \E prop \in [Walkers -> Points(Ndim)], acc \in [Walkers -> BOOLEAN] :
        LET r == mcmc_step(Val(sampler[freq_ind]), gp_george[freq_ind],
                           prop, acc, stage[freq_ind])
        IN  IF r.error # NoError
            THEN /\ Fail(r.error)
                 /\ UNCHANGED <<sampler, step>>
            ELSE /\ sampler' = [sampler EXCEPT ![freq_ind] = Some(r.sampler)]
                 /\ step' = step + 1
                 /\ UNCHANGED <<pc, error, pool>>
    /\ UNCHANGED <<results, cfg, locals, gp_george, freq_ind, stage, p0, lnp, files, call, ret>>


\* variant: the second burn-in is left out
FitBurnIn2Start_skip ==
    /\ pc = "fit"
    /\ freq_ind \in 1..NFreqs
    /\ stage[freq_ind] = "Burn1"
    /\ step = NSteps("Burn1")
    /\ IF NSteps("Burn1") = 0
       THEN /\ Fail(Raise("TypeError", <<>>))
            /\ UNCHANGED <<sampler, stage, step, p0, lnp>>
       ELSE LET s == Val(sampler[freq_ind])
            IN  /\ lnp' = s.poslnp
                /\ p0' = reseed(s.pos, s.poslnp)
                /\ StartRun(sampler_reset(s), p0', "Production")
    /\ UNCHANGED <<results, cfg, locals, gp_george, freq_ind, files, call, ret>>

\* lines 404-412: Burn-in-1 returns its final state (a run of no step returns
\* nothing to unpack), the history is reset, the walkers are reseeded and the
\* second run_mcmc is called
FitBurnIn2Start ==
    /\ pc = "fit"
    /\ freq_ind \in 1..NFreqs
    /\ stage[freq_ind] = "Burn1"
    /\ step = NSteps("Burn1")
    /\ IF NSteps("Burn1") = 0
       THEN /\ Fail(Raise("TypeError", <<>>))
            /\ UNCHANGED <<sampler, stage, step, p0, lnp>>
       ELSE LET s == Val(sampler[freq_ind])
            IN  /\ lnp' = s.poslnp
                /\ p0' = reseed(s.pos, s.poslnp)
                /\ StartRun(sampler_reset(s), p0', "Burn2")
    /\ UNCHANGED <<results, cfg, locals, gp_george, freq_ind, files, call, ret>>

\* lines 411-416: Burn-in-2 returns its final positions, the history is reset and
\* the production run_mcmc is called from them
FitProductionStart ==
    /\ pc = "fit"
    /\ freq_ind \in 1..NFreqs
    /\ stage[freq_ind] = "Burn2"
    /\ step = NSteps("Burn2")
    /\ IF NSteps("Burn2") = 0
       THEN /\ Fail(Raise("TypeError", <<>>))
            /\ UNCHANGED <<sampler, stage, step, p0>>
       ELSE LET s == Val(sampler[freq_ind])
            IN  /\ p0' = [w \in DOMAIN s.pos |-> Pos(s.pos[w], 0)]
                /\ StartRun(sampler_reset(s), p0', "Production")
    /\ UNCHANGED <<results, cfg, locals, gp_george, freq_ind, lnp, files, call, ret>>

\* variant: the results of a bin are stored in its model as soon as its
\* production run returns
FitBinDone_eager ==
    /\ pc = "fit"
    /\ freq_ind \in 1..NFreqs
    /\ stage[freq_ind] = "Production"
    /\ step = NSteps("Production")
    /\ IF NSteps("Production") = 0
       THEN /\ Fail(Raise("TypeError", <<>>))
            /\ UNCHANGED <<stage, p0, freq_ind, gp_george>>
       ELSE /\ p0' = [w \in Walkers |-> Pos(Val(sampler[freq_ind]).pos[w], 0)]
            /\ stage' = [stage EXCEPT ![freq_ind] = "Done"]
            /\ pool' = {q \in pool : q.bin # freq_ind}
            /\ gp_george' = [gp_george EXCEPT
                               ![freq_ind].emcee_flatchain =
                                    Some(Val(sampler[freq_ind]).chain),
                               ![freq_ind].emcee_flatlnprob =
                                    Some(Val(sampler[freq_ind]).lnprob)]
            /\ IF freq_ind = NFreqs
               THEN pc' = "populate" /\ freq_ind' = 1
               ELSE pc' = pc /\ freq_ind' = freq_ind + 1
            /\ UNCHANGED error
    /\ UNCHANGED <<results, cfg, locals, sampler, step, lnp, files, call, ret>>

\* lines 416-420: production returns, the `with` block closes the pool and the
\* loop moves to the next bin; after the last bin the populate loop begins
FitBinDone ==
    /\ pc = "fit"
    /\ freq_ind \in 1..NFreqs
    /\ stage[freq_ind] = "Production"
    /\ step = NSteps("Production")
    /\ IF NSteps("Production") = 0
       THEN /\ Fail(Raise("TypeError", <<>>))
            /\ UNCHANGED <<stage, p0, freq_ind>>
       ELSE /\ p0' = [w \in Walkers |-> Pos(Val(sampler[freq_ind]).pos[w], 0)]
            /\ stage' = [stage EXCEPT ![freq_ind] = "Done"]
            /\ pool' = {q \in pool : q.bin # freq_ind}
            /\ IF freq_ind = NFreqs
               THEN pc' = "populate" /\ freq_ind' = 1
               ELSE pc' = pc /\ freq_ind' = freq_ind + 1
            /\ UNCHANGED error
    /\ UNCHANGED <<results, cfg, locals, gp_george, sampler, step, lnp, files, call, ret>>

\* lines 423-431, one iteration of the loop (freq_ind is the loop variable ii)
FitPopulate ==
    /\ pc = "populate"
    /\ freq_ind \in 1..NFreqs
    /\ LET s == Val(sampler[freq_ind])
       IN  IF s.lnprob = <<>>
           THEN /\ gp_george' = [gp_george EXCEPT
                                   ![freq_ind].emcee_flatchain = Some(s.chain),
                                   ![freq_ind].emcee_flatlnprob = Some(s.lnprob)]
                /\ Fail(Raise("ValueError", <<>>))
                /\ UNCHANGED freq_ind
           ELSE /\ gp_george' = [gp_george EXCEPT
                                   ![freq_ind].emcee_flatchain = Some(s.chain),
                                   ![freq_ind].emcee_flatlnprob = Some(s.lnprob),
                                   ![freq_ind].emcee_kernel_map = Some(s.chain[argmax(s.lnprob)]),
                                   ![freq_ind].center_spectra =
                                        Some(Val(locals).yobs_center[freq_ind])]
                /\ IF freq_ind = NFreqs
                   THEN pc' = "fitted" /\ freq_ind' = freq_ind
                   ELSE pc' = pc /\ freq_ind' = freq_ind + 1
                /\ UNCHANGED <<error, pool>>
    /\ UNCHANGED <<results, cfg, locals, sampler, stage, step, p0, lnp, files, call, ret>>

\* lines 169-184
TrainGp_save ==
    /\ pc = "fitted"
    /\ pc' = "saved"
    /\ files' = written(files, save_path(files), gp_george)
    /\ UNCHANGED <<results, cfg, error, locals, gp_george, sampler, freq_ind, stage, step,
                   p0, lnp, pool, call, ret>>

Next ==
    \/ TrainGp_get_smoothed_gwb
    \/ TrainGp_get_parameter_values
    \/ TrainGp_create_gp_kernels
    \/ FitBegin
    \/ FitBeginBin
    \/ FitBurnIn1Start
    \/ McmcStep
    \/ FitBurnIn2Start
    \/ FitProductionStart
    \/ FitBinDone
    \/ FitPopulate
    \/ TrainGp_save

Spec == Init /\ [][Next]_vars

\* the steps of the fitting loop of fit_kernel_params
FitNext ==
    \/ FitBeginBin
    \/ FitBurnIn1Start
    \/ McmcStep
    \/ FitBurnIn2Start
    \/ FitProductionStart
    \/ FitBinDone

\* the process runs: a step of the fitting loop that can be taken is
\* eventually taken
FairSpec == Spec /\ WF_vars(FitNext)

----------------------------------------------------------------------------
(* Mass conversions (src/holodeck/utils.py).  Masses are non-negative whole
   numbers of a mass unit; a quotient of two of them is the exact fraction in
   lowest terms.  A numpy array is its shape and its elements in row-major
   order; a scalar has the empty shape and one element. *)

Array(shape, a) == [shape |-> shape, a |-> a]
Scalar(v) == Array(<<>>, <<v>>)
Array1(s) == Array(<<Len(s)>>, s)

RECURSIVE Gcd(_, _)
Gcd(a, b) == IF b = 0 THEN a ELSE Gcd(b, a % b)

\* a / b on non-negative doubles: 0/0 is NaN, x/0 is +inf
np_divide(a, b) ==
    IF b = 0
    THEN IF a = 0 THEN NaN ELSE PInf
    ELSE [k |-> "frac", v |-> <<a \div Gcd(a, b), b \div Gcd(a, b)>>]

\* np.shape(m)
np_shape(m) == m.shape

\* np.stack([m1, m2], axis=-1): the elements of m1 and m2 alternate
np_stack(m1, m2) ==
    IF np_shape(m1) # np_shape(m2)
    THEN [error |-> Raise("ValueError", "all input arrays must have the same shape"),
          value |-> None]
    ELSE [error |-> NoError,
          value |-> Some(Array(np_shape(m1) \o <<2>>,
                               [k \in 1..(2 * Len(m1.a)) |->
                                  IF k % 2 = 1 THEN m1.a[(k + 1) \div 2]
                                               ELSE m2.a[k \div 2]]))]

\* the pairs along the last axis of an array whose last dimension is 2
pair_at(masses, i) == <<masses.a[2 * i - 1], masses.a[2 * i]>>
pair_count(masses) == Len(masses.a) \div 2
\* the shape left by a reduction along the last axis
reduced_shape(masses) == SubSeq(masses.shape, 1, Len(masses.shape) - 1)

pair_sum(p) == p[1] + p[2]
pair_min(p) == IF p[1] <= p[2] THEN p[1] ELSE p[2]
pair_max(p) == IF p[1] >= p[2] THEN p[1] ELSE p[2]

\* variant: the ratio is taken in the order given
mtmr_of_ordered(masses) ==
    <<Array(reduced_shape(masses),
            [i \in 1..pair_count(masses) |-> pair_sum(pair_at(masses, i))]),
      Array(reduced_shape(masses),
            [i \in 1..pair_count(masses) |->
               np_divide(pair_at(masses, i)[1], pair_at(masses, i)[2])])>>

\* mtot = masses.sum(axis=-1); mrat = masses.min(axis=-1) / masses.max(axis=-1);
\* np.array([mtot, mrat]), given by its two rows
mtmr_of(masses) ==
    <<Array(reduced_shape(masses),
            [i \in 1..pair_count(masses) |-> pair_sum(pair_at(masses, i))]),
      Array(reduced_shape(masses),
            [i \in 1..pair_count(masses) |->
               np_divide(pair_min(pair_at(masses, i)), pair_max(pair_at(masses, i)))])>>

\* mtmr_from_m1m2(m1, m2=None); m2 is None or Some(array)
mtmr_from_m1m2(m1, m2) ==
    IF ~IsNone(m2)
    THEN LET st == np_stack(m1, Val(m2))
         IN  IF st.error # NoError
             THEN [error |-> st.error, out |-> None]
             ELSE [error |-> NoError, out |-> Some(mtmr_of(Val(st.value)))]
    ELSE IF np_shape(m1) = <<>>
         THEN [error |-> Raise("IndexError", "tuple index out of range"), out |-> None]
         ELSE IF np_shape(m1)[Len(np_shape(m1))] # 2
              THEN [error |-> Raise("AssertionError",
                                    "If only m1 is given, last dimension must be 2!"),
                    out |-> None]
              ELSE [error |-> NoError, out |-> Some(mtmr_of(m1))]

----------------------------------------------------------------------------
(* Unit evaluation: one function of the module is called on arguments drawn
   from bounded sets, and the call and its result are recorded. *)

\* the coordinates of the hyperparameter vectors evaluated
Coords == {-21, -20, -19, 0, 19, 20, 21}

ParNames == <<"p1", "p2", "p3", "p4">>

\* a GaussProc of bin `bin` over npars spectra parameters
EvalModel(npars, bin) ==
    Val(GaussProc_init([rows |-> 2, test_ind |-> 0, pars |-> SubSeq(ParNames, 1, npars)],
                       [bin |-> bin, test_ind |-> 0, stat |-> "median"],
                       [bin |-> bin, test_ind |-> 0],
                       [par \in SeqToSet(SubSeq(ParNames, 1, npars)) |->
                          [min |-> <<"min", par>>, max |-> <<"max", par>>]],
                       S_ExpSquaredKernel).obj)

EvalInit ==
    /\ cfg = [spectra |-> Spectra, nfreqs |-> 1, nwalkers |-> 2, nsamples |-> 1,
              burn_pct |-> 100, test_pct |-> 0, center_measure |-> S_median,
              kernel |-> S_ExpSquaredKernel]
    /\ pc = "start"
    /\ error = NoError
    /\ locals = None
    /\ gp_george = <<>>
    /\ sampler = <<>>
    /\ freq_ind = 0
    /\ stage = <<>>
    /\ step = 0
    /\ p0 = <<>>
    /\ lnp = <<>>
    /\ pool = {}
    /\ files = {}
    /\ call = NoCall
    /\ ret = None
    /\ results = <<>>

\* one call per behaviour: the functions evaluated keep no state between calls
Returns(c, r) ==
    /\ call = NoCall
    /\ call' = c
    /\ ret' = Some(r)
    /\ UNCHANGED <<results, cfg, pc, error, locals, gp_george, sampler, freq_ind, stage, step,
                   p0, lnp, pool, files>>

EvalLnprior ==
    \E npars \in 1..MaxPars : \E p \in [1..(npars + 1) -> Coords] :
        Returns([fn |-> "lnprior", p |-> p], lnprior(EvalModel(npars, 1), p))

EvalLnlike ==
    \E npars \in 1..MaxPars, bin \in 1..MaxFreqs : \E p \in [1..(npars + 1) -> Coords] :
        Returns([fn |-> "lnlike", p |-> p, bin |-> bin],
                lnlike(EvalModel(npars, bin), p))

\* lnprob is called on a model as constructed, and on one whose kernel
\* attribute was assigned a name that george.kernels does not have
EvalLnprob ==
    \E npars \in 1..MaxPars, bin \in 1..MaxFreqs : \E p \in [1..(npars + 1) -> Coords] :
      \E kernel \in {EvalModel(npars, bin).kernel, S_NotAKernel} :
        Returns([fn |-> "lnprob", p |-> p, bin |-> bin, kernel |-> kernel],
                lnprob([EvalModel(npars, bin) EXCEPT !.kernel = kernel], p))

EvalGaussProc ==
    \E npars \in 1..MaxPars, kernel \in KernelNames :
        LET pars == SubSeq(ParNames, 1, npars)
        IN  Returns([fn |-> "GaussProc", kernel |-> kernel, npars |-> npars],
                    GaussProc_init([rows |-> 2, test_ind |-> 0, pars |-> pars],
                                   [bin |-> 1, test_ind |-> 0, stat |-> "median"],
                                   [bin |-> 1, test_ind |-> 0],
                                   [par \in SeqToSet(pars) |->
                                      [min |-> <<"min", par>>, max |-> <<"max", par>>]],
                                   kernel))

\* doubles a library may hold in the place of a strain: zero, a strain whose
\* square is below 1e-40, the strain 1e-20, a negative strain, and the
\* non-finite doubles
RawSpecials == {Zero, Pow(-21000), Pow(-20000), NegPow(-12000), NaN, PInf, NInf}

\* the libraries evaluated: clean ones of 1..MaxRows samples, and the library
\* of train_gp with one strain replaced
EvalLibraries ==
    {Library(n, MaxFreqs, <<"p1">>) : n \in 1..MaxRows}
    \cup {[Spectra EXCEPT !.gwb[s][f][r] = x] :
            s \in 1..Spectra.nsamp, f \in 1..MaxFreqs, r \in 1..3, x \in RawSpecials}

\* test_frac, in percent
EvalTestPcts == {0, 34, 50, 100}

\* the selectors evaluated on a library: every spelling on the library of
\* train_gp, one of each branch on the others
EvalSelectors(spectra) ==
    IF spectra = Spectra THEN CenterMeasures ELSE {S_median, S_MEAN, S_mode}

EvalGetSmoothedGwb ==
    \E spectra \in EvalLibraries, nfreqs \in 1..MaxFreqs, test_pct \in EvalTestPcts :
      \E cm \in EvalSelectors(spectra) :
        Returns([fn |-> "get_smoothed_gwb", spectra |-> spectra, nfreqs |-> nfreqs,
                 test_pct |-> test_pct, center_measure |-> cm],
                get_smoothed_gwb(spectra, nfreqs, test_pct, cm))

\* get_smoothed_gwb is called once more, with the same settings, on the library
\* as the first call left it
EvalGetSmoothedGwbAgain ==
    /\ call.fn = "get_smoothed_gwb"
    /\ Len(ret) = 1
    /\ ret' = Append(ret, get_smoothed_gwb(ret[1].spectra, call.nfreqs, call.test_pct,
                                           call.center_measure))
    /\ UNCHANGED <<results, cfg, pc, error, locals, gp_george, sampler, freq_ind, stage, step,
                   p0, lnp, pool, files, call>>

\* train_gp, lines 151-159: both halves of the training data are taken from
\* one library with one test_frac
EvalTrainGpData ==
    \E n \in 1..MaxRows, nfreqs \in 1..MaxFreqs, test_pct \in EvalTestPcts,
       cm \in {S_median, S_mean} :
        LET spectra == Library(n, MaxFreqs, <<"p1", "mmb_amp">>)
        IN  Returns([fn |-> "train_gp_data", spectra |-> spectra, nfreqs |-> nfreqs,
                     test_pct |-> test_pct, center_measure |-> cm],
                    [smoothed |-> get_smoothed_gwb(spectra, nfreqs, test_pct, cm),
                     xobs |-> get_parameter_values(spectra, test_pct)])

\* values of the mmb_amp parameter: 8.5 (a logarithm already), exactly 100,
\* the raw amplitude 10^8.5, and zero
AmpValues == {Pow(929), Pow(2000), Pow(8500), Zero}

\* the parameter lists evaluated
AmpPars == {<<"p1">>, <<"p1", "mmb_amp">>, <<"mmb_amp", "p1">>}

\* a library whose mmb_amp column, if it has one, holds amps
LibraryWithAmp(pars, amps) ==
    LET lib == Library(Len(amps), MaxFreqs, pars)
    IN  [lib EXCEPT !.sample_params =
            [s \in 1..Len(amps) |-> [k \in 1..Len(pars) |->
                IF pars[k] = "mmb_amp" THEN amps[s] ELSE @[s][k]]]]

EvalGetParameterValues ==
    \E n \in 1..MaxRows, pars \in AmpPars, test_pct \in EvalTestPcts :
      \E amps \in [1..n -> AmpValues] :
        LET spectra == LibraryWithAmp(pars, amps)
        IN  Returns([fn |-> "get_parameter_values", spectra |-> spectra,
                     test_pct |-> test_pct],
                    get_parameter_values(spectra, test_pct))

\* the masses evaluated
MassValues == {0, 1, 2, 3}

\* the scalars and 1-D arrays given as one component of the binaries
MassComponents ==
    {Scalar(v) : v \in MassValues}
    \cup UNION {{Array1(s) : s \in [1..n -> MassValues]} : n \in 1..MaxBinaries}

\* the arrays of pairs, shaped (N, 2)
MassPairs ==
    UNION {{Array(<<n, 2>>, a) : a \in [1..(2 * n) -> MassValues]} : n \in 1..MaxBinaries}

EvalMtmrFromM1M2 ==
    \/ \E m1 \in MassComponents, m2 \in MassComponents :
          Returns([fn |-> "mtmr_from_m1m2", m1 |-> m1, m2 |-> Some(m2)],
                  mtmr_from_m1m2(m1, Some(m2)))
    \/ \E m1 \in MassComponents \cup MassPairs :
          Returns([fn |-> "mtmr_from_m1m2", m1 |-> m1, m2 |-> None],
                  mtmr_from_m1m2(m1, None))

EvalNext ==
    \/ EvalLnprior
    \/ EvalLnlike
    \/ EvalLnprob
    \/ EvalGaussProc
    \/ EvalGetSmoothedGwb
    \/ EvalGetSmoothedGwbAgain
    \/ EvalTrainGpData
    \/ EvalGetParameterValues
    \/ EvalMtmrFromM1M2

EvalSpec == EvalInit /\ [][EvalNext]_vars

----------------------------------------------------------------------------
(* Prediction: the functions that consume a collection of GaussProc objects.
   A function that receives the collection returns, beside its value, the
   collection as the call left it. *)

\* getattr(obj, name, None)
getattr(obj, name) == IF name \in DOMAIN obj THEN obj[name] ELSE None

\* an if / elif chain of `getattr(obj, name, None) is not None` tests: the first
\* name that is set, or "" when no branch is taken and the local stays unbound
first_set(obj, names) ==
    LET set == {i \in 1..Len(names) : ~IsNone(getattr(obj, names[i]))}
    IN  IF set = {} THEN "" ELSE names[CHOOSE i \in set : \A j \in set : i <= j]

\* the george.GP objects of set_up_predictions
reconstructed(gps, attr, n) ==
    [ii \in 1..n |-> [kparams |-> Val(getattr(gps[ii], attr)),
                      kernel |-> IF "kernel" \in DOMAIN gps[ii]
                                 THEN gps[ii].kernel ELSE S_ExpSquaredKernel,
                      x |-> gps[ii].x, yerr |-> gps[ii].yerr]]

\* variant: the kernel map found is stored on the objects under the old name
set_up_predictions_caching(spectra, gps) ==
    LET n == Min(spectra.nfreq, Len(gps))
        attr == first_set(gps[1], <<"kernel_map", "emcee_kernel_map">>)
    IN  IF attr = ""
        THEN [error |-> Raise("UnboundLocalError", "kernel_map_attr"),
              gp_list |-> <<>>, gp_george |-> gps]
        ELSE [error |-> NoError, gp_list |-> reconstructed(gps, attr, n),
              gp_george |-> [ii \in 1..Len(gps) |->
                               [gps[ii] EXCEPT !.kernel_map = getattr(gps[ii], attr)]]]

\* set_up_predictions
set_up_predictions(spectra, gps) ==
    LET n == Min(spectra.nfreq, Len(gps))
        attr == IF Len(gps) = 0 THEN ""
                ELSE first_set(gps[1], <<"kernel_map", "emcee_kernel_map">>)
        unset == {ii \in 1..n : IsNone(getattr(gps[ii], attr))}
    IN  IF Len(gps) = 0
        THEN [error |-> Raise("IndexError", <<>>), gp_list |-> <<>>, gp_george |-> gps]
        ELSE IF n = 0
        THEN [error |-> NoError, gp_list |-> <<>>, gp_george |-> gps]
        ELSE IF attr = ""
        THEN [error |-> Raise("UnboundLocalError", "kernel_map_attr"),
              gp_list |-> <<>>, gp_george |-> gps]
        ELSE IF unset # {}
        THEN [error |-> Raise("TypeError", <<>>), gp_list |-> <<>>, gp_george |-> gps]
        ELSE [error |-> NoError, gp_list |-> reconstructed(gps, attr, n),
              gp_george |-> gps]

\* the points of parameter space at which predictions are asked
EnvPars == {<<-2>>, <<-1>>, <<0>>, <<1>>, <<2>>}

\* george.GP.predict(y, [env_pars]): the predicted mean, in units of 1e-3, and
\* the predicted variance, in units of 1e-16.  The mean follows the query
\* point; at the query points furthest out the variance comes out negative
\* through round-off
gp_predict(gp, y, env_pars) ==
    [mu |-> 150 * env_pars[1] + y.bin,
     var |-> IF env_pars[1] \in {-2, 2} THEN -1 ELSE 4 * y.bin * y.bin]

\* a + b on values of logarithms, b finite
FPlus(a, b) == IF np_isfinite(a) THEN Fin(a.v + b) ELSE a

\* np.sqrt(10**rho)
hc_of_rho(rho) ==
    CASE rho.k = "fin" -> Pow(rho.v \div 2)
      [] rho.k = "inf" -> PInf
      [] rho.k = "ninf" -> Zero
      [] OTHER -> NaN

\* variant: a collection without a center is given the center 0
hc_from_gp_default_center(gps, gp_list, env_pars) ==
    LET pred(ii) == gp_predict(gp_list[ii], gps[ii].y, env_pars)
        rho_pred == [ii \in 1..Len(gps) |->
                       IF pred(ii).var < 0
                       THEN [mean |-> pred(ii).mu, sigma |-> pred(ii).mu]
                       ELSE [mean |-> pred(ii).mu, sigma |-> ISqrt(pred(ii).var)]]
        attr == first_set(gps[1], <<"center_spectra", "mean_spectra">>)
        center(ii) == IF attr = "" THEN Some([val |-> Fin(0)]) ELSE getattr(gps[ii], attr)
        rho == [ii \in 1..Len(gp_list) |-> FPlus(Val(center(ii)).val, rho_pred[ii].mean)]
        failed(e) == [error |-> e, hc |-> <<>>, rho |-> <<>>, rho_pred |-> <<>>,
                      gp_george |-> gps]
    IN  IF Len(gp_list) < Len(gps) THEN failed(Raise("IndexError", <<>>))
        ELSE IF Len(gps) = 0 THEN failed(Raise("IndexError", <<>>))
        ELSE IF \E ii \in 1..Len(gp_list) : IsNone(center(ii))
        THEN failed(Raise("TypeError", <<>>))
        ELSE [error |-> NoError, hc |-> [ii \in 1..Len(gp_list) |-> hc_of_rho(rho[ii])],
              rho |-> rho, rho_pred |-> rho_pred, gp_george |-> gps]

\* hc_from_gp: rho_pred holds the mean in units of 1e-3 and the uncertainty in
\* units of 1e-8, so that 1e-5 * mu_pred is the number mu_pred of these units
hc_from_gp(gps, gp_list, env_pars) ==
    LET pred(ii) == gp_predict(gp_list[ii], gps[ii].y, env_pars)
        rho_pred == [ii \in 1..Len(gps) |->
                       IF pred(ii).var < 0
                       THEN [mean |-> pred(ii).mu, sigma |-> pred(ii).mu]
                       ELSE [mean |-> pred(ii).mu, sigma |-> ISqrt(pred(ii).var)]]
        attr == first_set(gps[1], <<"center_spectra", "mean_spectra">>)
        center(ii) == getattr(gps[ii], attr)
        rho == [ii \in 1..Len(gp_list) |-> FPlus(Val(center(ii)).val, rho_pred[ii].mean)]
        failed(e) == [error |-> e, hc |-> <<>>, rho |-> <<>>, rho_pred |-> <<>>,
                      gp_george |-> gps]
    IN  IF Len(gp_list) < Len(gps) THEN failed(Raise("IndexError", <<>>))
        ELSE IF Len(gps) = 0 THEN failed(Raise("IndexError", <<>>))
        ELSE IF attr = "" THEN failed(Raise("UnboundLocalError", "center_attr"))
        ELSE IF \E ii \in 1..Len(gp_list) : IsNone(center(ii))
        THEN failed(Raise("TypeError", <<>>))
        ELSE [error |-> NoError, hc |-> [ii \in 1..Len(gp_list) |-> hc_of_rho(rho[ii])],
              rho |-> rho, rho_pred |-> rho_pred, gp_george |-> gps]

\* np.random.randint(len(samples), size=nsamples)[j], from the state rng of the
\* generator
randint(len, rng, j) == ((j + rng) % len) + 1

\* variant: a model without a chain is taken to have an empty chain and
\* contributes zeros
sample_helper_lenient(gp_at_freq, gp_george_at_freq, env_pars, nsamples, rng) ==
    LET obj == gp_george_at_freq
        chain_var == first_set(obj, <<"chain", "emcee_flatchain">>)
        center_attr == first_set(obj, <<"center_spectra", "mean_spectra">>)
    IN  IF chain_var = ""
        THEN [error |-> NoError, printed |-> <<"Chains are not saved!">>,
              hc |-> [j \in 1..nsamples |-> Zero]]
        ELSE [error |-> NoError, printed |-> <<>>,
              hc |-> [j \in 1..nsamples |->
                        [y |-> obj.y.bin, center |-> Val(getattr(obj, center_attr)),
                         kparams |-> Val(getattr(obj, chain_var))[
                                        randint(Len(Val(getattr(obj, chain_var))), rng, j)],
                         env_pars |-> env_pars]]]

\* _sample_hc_from_gp_helper: gp_at_freq is the george.GP and gp_george_at_freq
\* the GaussProc of one frequency.  An entry of hc is described by what it was
\* drawn from: the targets and the center of the GaussProc and the chain row
\* loaded into the george.GP
sample_helper(gp_at_freq, gp_george_at_freq, env_pars, nsamples, rng) ==
    LET obj == gp_george_at_freq
        chain_var == first_set(obj, <<"chain", "emcee_flatchain">>)
        samples == Val(getattr(obj, chain_var))
        center_attr == first_set(obj, <<"center_spectra", "mean_spectra">>)
    IN  IF chain_var = ""
        THEN [error |-> Raise("UnboundLocalError", "chain_var"),
              printed |-> <<"Chains are not saved!">>, hc |-> <<>>]
        ELSE IF Len(samples) = 0
        THEN [error |-> Raise("ValueError", <<>>), printed |-> <<>>, hc |-> <<>>]
        ELSE IF nsamples > 0 /\ center_attr = ""
        THEN [error |-> Raise("UnboundLocalError", "center_attr"),
              printed |-> <<>>, hc |-> <<>>]
        ELSE [error |-> NoError, printed |-> <<>>,
              hc |-> [j \in 1..nsamples |->
                        [y |-> obj.y.bin, center |-> Val(getattr(obj, center_attr)),
                         kparams |-> samples[randint(Len(samples), rng, j)],
                         env_pars |-> env_pars]]]

\* variant: the results are laid out in the order the workers finished
gathered_unordered(res) == [i \in 1..Len(res) |-> res[i].result.hc]

\* pool.starmap: the results are laid out in the order of the arguments
gathered(res) ==
    [i \in 1..Len(res) |-> res[CHOOSE k \in 1..Len(res) : res[k].task = i].result.hc]

\* hc.T
transposed(hc, nsamples) ==
    [j \in 1..nsamples |-> [f \in 1..Len(hc) |-> hc[f][j]]]

----------------------------------------------------------------------------
(* A session that ends a training run and uses the collection, or loads a
   collection written by an earlier version of the module. *)

\* the arguments of the training run
PredictConfig(nfreqs) ==
    [spectra |-> Spectra, nfreqs |-> nfreqs, nwalkers |-> 2, nsamples |-> 1,
     burn_pct |-> 100, test_pct |-> 0, center_measure |-> S_MEAN,
     kernel |-> S_expsquaredkernel]

\* train_gp's locals when fit_kernel_params is called, and the collection
TrainData(c) ==
    LET g == Val(get_smoothed_gwb(c.spectra, c.nfreqs, c.test_pct, c.center_measure).out)
        x == get_parameter_values(c.spectra, c.test_pct)
        k == create_gp_kernels(g.gp_freqs, c.spectra.pars, x, g.yerr, g.yobs, c.kernel)
    IN  [locals |-> [gp_freqs |-> g.gp_freqs, yerr |-> g.yerr, yobs |-> g.yobs,
                     yobs_center |-> g.yobs_center, pars |-> c.spectra.pars,
                     xobs |-> x, num_kpars |-> k.num_kpars],
         gp_george |-> k.gp_george]

\* one run_mcmc call of one step from the positions pos0, proposing prop
RunOnce(s, self, pos0, prop, tag) ==
    mcmc_step(mcmc_start(s, self, pos0).sampler, self, prop,
              [w \in DOMAIN pos0 |-> TRUE], tag).sampler

\* the three run_mcmc calls of one bin, of one step each: the burn-in steps
\* stay at the initial point, the production step proposes prod
FitRun(c, self, ndim, prod) ==
    LET stay == [w \in 1..c.nwalkers |-> LogOnes(ndim)]
    IN  CHOOSE r \in
          {[burn1 |-> b1, production |-> RunOnce(sampler_reset(b2), self,
                                                 [w \in 1..c.nwalkers |-> Pos(b2.pos[w], 0)],
                                                 prod, "Production")] :
             <<b1, b2>> \in
               {<<x, RunOnce(sampler_reset(x), self, reseed(x.pos, x.poslnp), stay, "Burn2")>> :
                  x \in {RunOnce(NewSampler, self, initial_p0(c.nwalkers, ndim),
                                 stay, "Burn1")}}} : TRUE

\* the production proposals of the runs
ProdChoices(c, ndim) ==
    {[w \in 1..c.nwalkers |-> LogOnes(ndim)],
     [w \in 1..c.nwalkers |-> IF w = 1 THEN [i \in 1..ndim |-> IF i = 1 THEN 1 ELSE -1]
                              ELSE LogOnes(ndim)]}

\* the content of a file left by an earlier run (the collection it pickled
\* is not looked at)
OldPickle == <<>>

\* the output directory before the run
InitialDirs == {{}, {File(DefaultFile, OldPickle)},
                {File(DefaultFile, OldPickle), File(DatedFile, OldPickle)}}

\* a GaussProc pickled by an earlier version of the module: the kernel map
\* is in kernel_map, the center in mean_spectra, the chain (if it was saved) in chain
Legacy(self, s, center, with_chain) ==
    [x |-> self.x, y |-> self.y, yerr |-> self.yerr, par_dict |-> self.par_dict,
     kernel |-> self.kernel, pmax |-> self.pmax, pmin |-> self.pmin,
     kernel_map |-> Some(s.chain[argmax(s.lnprob)]),
     chain |-> IF with_chain THEN Some(s.chain) ELSE None,
     mean_spectra |-> Some(center)]

\* fit_kernel_params has run every bin and is about to populate the objects
PredictInitTrained ==
    \E nfreqs \in 1..MaxFreqs, dir \in InitialDirs :
      \E d \in {TrainData(PredictConfig(nfreqs))} :
        \E prod \in ProdChoices(PredictConfig(nfreqs), d.locals.num_kpars) :
          \E run \in {[f \in 1..nfreqs |->
                         FitRun(PredictConfig(nfreqs), d.gp_george[f],
                                d.locals.num_kpars, prod)]} :
              /\ cfg = PredictConfig(nfreqs)
              /\ pc = "populate"
              /\ locals = Some(d.locals)
              /\ gp_george = d.gp_george
              /\ sampler = [f \in 1..nfreqs |-> Some(run[f].production)]
              /\ freq_ind = 1
              /\ stage = [f \in 1..nfreqs |-> "Done"]
              /\ step = 1
              /\ p0 = [w \in 1..cfg.nwalkers |-> Pos(run[nfreqs].production.pos[w], 0)]
              /\ lnp = run[nfreqs].burn1.poslnp
              /\ files = dir

\* a collection has been loaded: one of an earlier version, with or without
\* its chains, or one that was never fitted; beside the latter the caller may
\* hold the george.GP objects set up from a fitted collection of the same data
PredictInitLoaded ==
    \E nfreqs \in 1..MaxFreqs, kind \in {"chain", "nochain", "unfitted", "unfitted, gp_list"} :
      \E d \in {TrainData(PredictConfig(nfreqs))} :
        \E run \in {[f \in 1..nfreqs |->
                       FitRun(PredictConfig(nfreqs), d.gp_george[f], d.locals.num_kpars,
                              [w \in 1..2 |-> LogOnes(d.locals.num_kpars)])]} :
            /\ cfg = PredictConfig(nfreqs)
            /\ pc = "loaded"
            /\ locals = IF kind = "unfitted, gp_list"
                        THEN Some([gp_list |->
                                     [f \in 1..nfreqs |->
                                        [kparams |-> run[f].production.chain[
                                                        argmax(run[f].production.lnprob)],
                                         kernel |-> d.gp_george[f].kernel,
                                         x |-> d.gp_george[f].x,
                                         yerr |-> d.gp_george[f].yerr]]])
                        ELSE None
            /\ gp_george = IF kind \in {"unfitted", "unfitted, gp_list"} THEN d.gp_george
                           ELSE [f \in 1..nfreqs |->
                                   Legacy(d.gp_george[f], run[f].production,
                                          d.locals.yobs_center[f], kind = "chain")]
            /\ sampler = <<>>
            /\ freq_ind = 0
            /\ stage = <<>>
            /\ step = 0
            /\ p0 = <<>>
            /\ lnp = <<>>
            /\ files = {File(DefaultFile, gp_george)}

\* a model as the populate loop of fit_kernel_params leaves it (lines 423-431)
Fitted(self, s, center) ==
    [self EXCEPT !.emcee_flatchain = Some(s.chain),
                 !.emcee_flatlnprob = Some(s.lnprob),
                 !.emcee_kernel_map = Some(s.chain[argmax(s.lnprob)]),
                 !.center_spectra = Some(center)]

\* a model of an earlier version that this version has fitted again: the
\* attributes of the earlier fit are still on the object
Refitted(old, s, center) ==
    Fitted([name \in DOMAIN old \cup {"emcee_flatchain", "emcee_flatlnprob",
                                      "emcee_kernel_map", "center_spectra"} |->
              IF name \in DOMAIN old THEN old[name] ELSE None],
           s, center)

\* a library whose strains are all 1: the logarithm of every squared strain,
\* and with it every center, is 0.0
UnitLibrary ==
    [Spectra EXCEPT !.gwb = [i \in 1..Spectra.nsamp |-> [f \in 1..Spectra.nfreq |->
                                [r \in 1..3 |-> Pow(0)]]]]

\* the state in which the collection gps has been loaded from its file
LoadedState(c, gps) ==
    /\ cfg = c
    /\ pc = "loaded"
    /\ locals = None
    /\ gp_george = gps
    /\ sampler = <<>>
    /\ freq_ind = 0
    /\ stage = <<>>
    /\ step = 0
    /\ p0 = <<>>
    /\ lnp = <<>>
    /\ files = {File(DefaultFile, gps)}

\* the loaded collection is one of an earlier version that fit_kernel_params
\* of this version was run on again, with another center statistic and another
\* outcome of the sampling
PredictInitRefitted ==
    \E nfreqs \in 1..MaxFreqs :
      \E d \in {TrainData(PredictConfig(nfreqs))} :
        \E e \in {TrainData([PredictConfig(nfreqs) EXCEPT !.center_measure = S_median])} :
          \E run \in {[f \in 1..nfreqs |->
                         [old |-> FitRun(PredictConfig(nfreqs), d.gp_george[f],
                                         d.locals.num_kpars,
                                         [w \in 1..2 |-> LogOnes(d.locals.num_kpars)]),
                          new |-> FitRun(PredictConfig(nfreqs), d.gp_george[f],
                                         d.locals.num_kpars,
                                         [w \in 1..2 |-> [i \in 1..d.locals.num_kpars |->
                                                            IF i = 1 THEN 1 ELSE -1]])]]} :
              LoadedState(PredictConfig(nfreqs),
                          [f \in 1..nfreqs |->
                             Refitted(Legacy(d.gp_george[f], run[f].old.production,
                                             e.locals.yobs_center[f], TRUE),
                                      run[f].new.production, d.locals.yobs_center[f])])

\* the loaded collection was trained by this version on a library whose
\* centers are 0.0
PredictInitZeroCenter ==
    \E nfreqs \in 1..MaxFreqs :
      \E c \in {[PredictConfig(nfreqs) EXCEPT !.spectra = UnitLibrary]} :
        \E d \in {TrainData(c)} :
          \E run \in {[f \in 1..nfreqs |->
                         FitRun(c, d.gp_george[f], d.locals.num_kpars,
                                [w \in 1..2 |-> LogOnes(d.locals.num_kpars)])]} :
              LoadedState(c, [f \in 1..nfreqs |->
                                Fitted(d.gp_george[f], run[f].production,
                                       d.locals.yobs_center[f])])

PredictInit ==
    /\ \/ PredictInitTrained
       \/ PredictInitLoaded
       \/ PredictInitRefitted
       \/ PredictInitZeroCenter
    /\ error = NoError
    /\ pool = {}
    /\ call = NoCall
    /\ ret = None
    /\ results = <<>>

\* the collection is at hand and no call is in progress
Idle ==
    /\ pc \in {"saved", "loaded"}
    /\ pool = {}
    /\ ~(call.fn = "sample_hc_from_gp" /\ IsNone(ret))

HasGpList == ~IsNone(locals) /\ "gp_list" \in DOMAIN Val(locals)

SetUpPredictions ==
    /\ Idle
    /\ LET r == set_up_predictions(cfg.spectra, gp_george)
       IN  /\ call' = [fn |-> "set_up_predictions"]
           /\ ret' = Some([error |-> r.error, gp_list |-> r.gp_list])
           /\ gp_george' = r.gp_george
           /\ locals' = IF r.error = NoError THEN Some([gp_list |-> r.gp_list]) ELSE locals
    /\ UNCHANGED <<results, cfg, pc, error, sampler, freq_ind, stage, step, p0, lnp,
                   pool, files>>

HcFromGp ==
    /\ Idle
    /\ HasGpList
    /\ \E env_pars \in EnvPars :
        LET r == hc_from_gp(gp_george, Val(locals).gp_list, env_pars)
        IN  /\ call' = [fn |-> "hc_from_gp", env_pars |-> env_pars]
            /\ ret' = Some([error |-> r.error, hc |-> r.hc, rho |-> r.rho,
                            rho_pred |-> r.rho_pred])
            /\ gp_george' = r.gp_george
    /\ UNCHANGED <<results, cfg, pc, error, locals, sampler, freq_ind, stage, step,
                   p0, lnp, pool, files>>

\* nsamples, the state of the random generator and os.cpu_count()
SampleCounts == {2, 99, 100}
RngStates == {0, 1}
CpuCounts == {1, 2, 3}

\* sample_hc_from_gp, lines 620-632: the advisory, the arguments, the pool
\* (Pool(0) raises ValueError) and the tasks handed out
SampleHcFromGp ==
    /\ Idle
    /\ HasGpList
    /\ \E nsamples \in SampleCounts, rng \in RngStates, cpus \in CpuCounts :
        /\ call' = [fn |-> "sample_hc_from_gp", env_pars |-> <<1>>, nsamples |-> nsamples,
                    rng |-> rng, cpus |-> cpus, warned |-> nsamples < 100,
                    ntasks |-> Len(Val(locals).gp_list)]
        /\ IF cpus - 1 < 1
           THEN /\ ret' = Some([error |-> Raise("ValueError", "processes"), hc |-> None])
                /\ pool' = pool
           ELSE /\ ret' = None
                /\ pool' = 1..Len(Val(locals).gp_list)
    /\ results' = <<>>
    /\ UNCHANGED <<cfg, pc, error, locals, gp_george, sampler, freq_ind, stage, step,
                   p0, lnp, files>>

\* a worker finishes a task: with one worker the tasks are run in order, with
\* more in any order
SampleWorker ==
    /\ call.fn = "sample_hc_from_gp"
    /\ IsNone(ret)
    /\ \E i \in pool :
        /\ call.cpus - 1 = 1 => \A j \in pool : i <= j
        /\ results' = Append(results,
                             [task |-> i,
                              result |-> sample_helper(Val(locals).gp_list[i], gp_george[i],
                                                       call.env_pars, call.nsamples,
                                                       call.rng)])
        /\ pool' = pool \ {i}
    /\ UNCHANGED <<cfg, pc, error, locals, gp_george, sampler, freq_ind, stage, step,
                   p0, lnp, files, call, ret>>

\* lines 632-636: starmap returns when every task is done, or raises the first
\* exception a task raised; the table is transposed
SampleHcReturn ==
    /\ call.fn = "sample_hc_from_gp"
    /\ IsNone(ret)
    /\ pool = {}
    /\ LET bad == {k \in 1..Len(results) : results[k].result.error # NoError}
       IN  ret' = IF bad # {}
                  THEN Some([error |-> results[CHOOSE k \in bad :
                                                 \A l \in bad : k <= l].result.error,
                             hc |-> None])
                  ELSE Some([error |-> NoError,
                             hc |-> Some(transposed(gathered(results), call.nsamples))])
    /\ UNCHANGED <<results, cfg, pc, error, locals, gp_george, sampler, freq_ind, stage,
                   step, p0, lnp, pool, files, call>>

PredictNext ==
    \/ FitPopulate
    \/ TrainGp_save
    \/ SetUpPredictions
    \/ HcFromGp
    \/ SampleHcFromGp
    \/ SampleWorker
    \/ SampleHcReturn

PredictSpec == PredictInit /\ [][PredictNext]_vars

----------------------------------------------------------------------------
(* Properties *)

\* two strings are equal up to the case of their letters
SameLetter(a, b) ==
    \/ a = b
    \/ \E i \in 1..Len(UpperChars) :
          {a, b} = {UpperChars[i], LowerChars[i]}

EqIgnoreCase(a, b) ==
    /\ Len(a) = Len(b)
    /\ \A i \in 1..Len(a) : SameLetter(a[i], b[i])

IsKernelFamily(name) == \E i \in 1..Len(kernel_list) : EqIgnoreCase(name, kernel_list[i])
IsCenterStatistic(name) == EqIgnoreCase(name, S_median) \/ EqIgnoreCase(name, S_mean)

Bins == DOMAIN stage
SeqRange(q) == {q[i] : i \in 1..Len(q)}

\* C1: once a bin's fit results are stored, its MAP vector is the entry of its
\* stored chain at an index where the stored log-posterior sequence is maximal:
\* no entry of the stored chain has a strictly larger log-posterior.
C1_MapIsChainMaximum ==
    \A f \in 1..Len(gp_george) :
        ~IsNone(gp_george[f].emcee_kernel_map) =>
            LET chain == Val(gp_george[f].emcee_flatchain)
                lp == Val(gp_george[f].emcee_flatlnprob)
            IN  /\ Len(chain) = Len(lp)
                /\ \E i \in 1..Len(chain) :
                      /\ Val(gp_george[f].emcee_kernel_map) = chain[i]
                      /\ \A j \in 1..Len(lp) : lp[j] <= lp[i]

\* the fit has completed and some bin's maximum is not at the head of its chain
C1_Witness ==
    /\ pc = "fitted"
    /\ \E f \in 1..Len(gp_george) :
          LET lp == Val(gp_george[f].emcee_flatlnprob)
          IN  \E i \in 2..Len(lp) : lp[i] > lp[1]

StageOrder == {<<"Pending", "Initialize">>, <<"Initialize", "Burn1">>,
               <<"Burn1", "Burn2">>, <<"Burn2", "Production">>,
               <<"Production", "Done">>}

\* C2: every change of a bin's stage is a move to the next stage of Initialize,
\* Burn-in-1, Burn-in-2, Production, Done; a stage that follows a run_mcmc call is
\* entered only when that call has run all its steps.
C2_StagesInOrder ==
    [][\A f \in Bins :
          (f \in DOMAIN stage' /\ stage'[f] # stage[f]) =>
              /\ <<stage[f], stage'[f]>> \in StageOrder
              /\ stage[f] \in RunStages => step = NSteps(stage[f])]_vars

\* a bin has gone through all stages
C2_Witness == \E f \in Bins : stage[f] = "Done"

\* C3: a bin has left Pending only if every bin before it is Done, at most one
\* bin is between Initialize and Production, and only that bin has a pool.
C3_BinsSequential ==
    /\ \A f, g \in Bins : (f < g /\ stage[g] # "Pending") => stage[f] = "Done"
    /\ Cardinality({f \in Bins : stage[f] \notin {"Pending", "Done"}}) <= 1
    /\ {q.bin : q \in pool} \subseteq {f \in Bins : stage[f] \notin {"Pending", "Done"}}

\* the second bin is running after the first is Done
C3_Witness ==
    /\ 2 \in Bins
    /\ stage[1] = "Done"
    /\ stage[2] \in RunStages

\* C4: the chain and the log-posterior sequence stored on a model hold exactly
\* nwalkers * nsamples entries, all produced during the Production stage.
C4_ChainIsProductionOnly ==
    \A f \in 1..Len(gp_george) :
        ~IsNone(gp_george[f].emcee_flatchain) =>
            /\ Len(Val(gp_george[f].emcee_flatchain)) = cfg.nwalkers * cfg.nsamples
            /\ Len(Val(gp_george[f].emcee_flatlnprob)) = cfg.nwalkers * cfg.nsamples
            /\ Val(gp_george[f].emcee_flatchain) = Val(sampler[f]).chain
            /\ SeqRange(Val(sampler[f]).tags) = {"Production"}

\* every bin's chain is stored, after burn-ins that ran at least one step
C4_Witness ==
    /\ pc = "fitted"
    /\ NBurn(cfg) >= 1
    /\ \A f \in 1..Len(gp_george) : Len(Val(gp_george[f].emcee_flatchain)) >= 2

\* C5: Burn-in-2 starts with every walker at the Burn-in-1 final position of
\* highest log-posterior, perturbed at scale 1e-8; Production starts from the
\* final positions of Burn-in-2 as they are.
C5_ReseedThenContinue ==
    [][\A f \in Bins :
          /\ (stage[f] = "Burn1" /\ f \in DOMAIN stage' /\ stage'[f] = "Burn2") =>
               LET s == Val(sampler[f])
               IN  \E w \in DOMAIN s.pos :
                     /\ \A v \in DOMAIN s.pos : s.poslnp[v] <= s.poslnp[w]
                     /\ p0' = [v \in 1..cfg.nwalkers |-> Pos(s.pos[w], 8)]
                     /\ Val(sampler'[f]).pos = [v \in 1..cfg.nwalkers |-> s.pos[w]]
          /\ (stage[f] = "Burn2" /\ f \in DOMAIN stage' /\ stage'[f] = "Production") =>
               LET s == Val(sampler[f])
               IN  /\ Val(sampler'[f]).pos = s.pos
                   /\ p0' = [v \in 1..cfg.nwalkers |-> Pos(s.pos[v], 0)]]_vars

\* Burn-in-2 has just started, and the best Burn-in-1 walker was not the first
C5_Witness ==
    \E f \in Bins :
        /\ stage[f] = "Burn2"
        /\ step = 0
        /\ pc = "fit"
        /\ lnp[1] < lnp[2]
        /\ \A w \in DOMAIN p0 : p0[w].eps = 8

AbortedBySingular == error.type = "LinAlgError"
FitHasSteps == pc = "fit" /\ NBurn(cfg) >= 1
AllBinsDone == pc # "fit" /\ pc # "failed" /\ \A f \in Bins : stage[f] = "Done"

\* C6: no run is ended by a singular factorization, and a fit whose run_mcmc
\* calls have steps to run takes every bin to Done.
C6_DegeneracyNeverAborts ==
    /\ [](~AbortedBySingular)
    /\ FitHasSteps ~> AllBinsDone

\* a bin is Done although log-posterior evaluations of its chain were singular
C6_Witness ==
    \E f \in Bins :
        /\ stage[f] = "Done"
        /\ NegInf \in SeqRange(Val(sampler[f]).lnprob)

\* C7: lnprior is the sum over the dimensions of log(1/40) for every vector
\* strictly inside the box, and -inf when a component is outside the box.
C7_PriorIsUniformOnBox ==
    call.fn = "lnprior" =>
        LET p == call.p
        IN  /\ (\A i \in 1..Len(p) : -20 < p[i] /\ p[i] < 20) => Val(ret) = Len(p) * (-3689)
            /\ (\E i \in 1..Len(p) : p[i] < -20 \/ p[i] > 20) => Val(ret) = NegInf

\* lnprior was called with one component outside the box and the others inside
C7_Witness ==
    /\ call.fn = "lnprior"
    /\ Cardinality({i \in 1..Len(call.p) : call.p[i] > 20}) = 1
    /\ \E i \in 1..Len(call.p) : call.p[i] = 19

C9_SelectorValidated ==
    call.fn = "get_smoothed_gwb" =>
        LET r == Val(ret)
        IN  IF IsCenterStatistic(call.center_measure)
            THEN /\ r.error = NoError
                 /\ \A f \in DOMAIN Val(r.out).yobs_center :
                       EqIgnoreCase(call.center_measure,
                           IF Val(r.out).yobs_center[f].stat = "median" THEN S_median ELSE S_mean)
            ELSE /\ r.error = Raise("ValueError", call.center_measure)
                 /\ IsNone(r.out)

\* get_smoothed_gwb was called with an unknown selector and raised
C9_Witness ==
    /\ call.fn = "get_smoothed_gwb"
    /\ call.center_measure = S_medians
    /\ Val(ret).error.type = "ValueError"

\* C10: with an unknown center-statistic selector or an unknown kernel family,
\* train_gp ends with ValueError: no bin ever enters an MCMC stage, no sampler or
\* pool is created, no file is written, and nothing runs after the error.
C10_ConfigErrorsAbortEarly ==
    (~IsCenterStatistic(cfg.center_measure) \/ ~IsKernelFamily(cfg.kernel)) =>
        /\ pc \in {"start", "smoothed", "params", "failed"}
        /\ ~IsCenterStatistic(cfg.center_measure) => pc \in {"start", "failed"}
        /\ pc = "failed" => (error.type = "ValueError" /\ ~ENABLED Next)
        /\ \A f \in Bins : stage[f] = "Pending"
        /\ sampler = <<>>
        /\ pool = {}
        /\ files = {}

\* the kernel name was rejected after the preprocessing had succeeded
C10_Witness ==
    /\ pc = "failed"
    /\ IsCenterStatistic(cfg.center_measure)
    /\ ~IsKernelFamily(cfg.kernel)
    /\ ~IsNone(locals)

----------------------------------------------------------------------------
(* The preprocessing of the spectra *)

\* int(N * test_frac) of the call under evaluation
CallTestInd == (call.spectra.nsamp * call.test_pct) \div 100

\* the elements of the slice that the call squared: row, frequency, realization
SliceElems(r) ==
    {e \in (1..Len(r.gwb_spectra)) \X (1..MaxFreqs) \X (1..3) :
        e[2] <= Len(r.gwb_spectra[e[1]])}

\* the square of the strain that element e of the slice was read from
RawSquare(e) == np_square(call.spectra.gwb[e[1] + CallTestInd][e[2]][e[3]])

\* C11: in get_smoothed_gwb every squared strain that is at most 1e-40, or NaN,
\* is replaced by exactly 1e-40 before its logarithm is taken, and every finite
\* squared strain above 1e-40 is left as it is
C11_ClampToFloor ==
    call.fn = "get_smoothed_gwb" =>
        LET r == ret[1]
        IN  \A e \in SliceElems(r) :
              LET sq == RawSquare(e)
                  kept == r.gwb_spectra[e[1]][e[2]][e[3]]
              IN  /\ (sq.k \in {"zero", "nan"} \/ (sq.k = "pow" /\ sq.v <= -40000))
                        => /\ kept = Pow(-40000)
                           /\ r.error = NoError => r.logs[e[1]][e[2]][e[3]] = Fin(-40000)
                  /\ (sq.k = "pow" /\ sq.v > -40000)
                        => /\ kept = sq
                           /\ r.error = NoError => r.logs[e[1]][e[2]][e[3]] = Fin(sq.v)

\* a call whose slice held a NaN, which came out as the floor
C11_Witness ==
    /\ call.fn = "get_smoothed_gwb"
    /\ \E e \in SliceElems(ret[1]) :
          /\ RawSquare(e) = NaN
          /\ ret[1].gwb_spectra[e[1]][e[2]][e[3]] = Pow(FloorExp)
          /\ ret[1].error = NoError

\* the values returned by a call that did not raise
OutputValues(r) ==
    LET o == Val(r.out)
    IN  UNION {SeqRange(o.yobs[f].vals) \cup SeqRange(o.yerr[f].vals)
               \cup {o.yobs_center[f].val} : f \in DOMAIN o.yobs}

\* C12: in get_smoothed_gwb every non-finite squared strain (NaN, +inf, the
\* square of -inf) is clamped to 1e-40 before any logarithm, so that no
\* logarithm receives a non-finite or sub-floor argument and no NaN reaches the
\* outputs
C12_NonFiniteClamped ==
    (call.fn = "get_smoothed_gwb" /\ ret[1].error = NoError) =>
        LET r == ret[1]
        IN  /\ \A e \in SliceElems(r) :
                 LET kept == r.gwb_spectra[e[1]][e[2]][e[3]]
                 IN  /\ RawSquare(e).k \in {"nan", "inf"} => kept = Pow(-40000)
                     /\ kept.k = "pow" /\ kept.v >= -40000
            /\ Len(r.gwb_spectra) > 0 => \A y \in OutputValues(r) : ~np_isnan(y)

\* C19: for every library of N samples and every test_frac in [0, 1],
\* get_smoothed_gwb and get_parameter_values reserve the same leading
\* int(N * test_frac) samples: the targets, the uncertainties and the inputs
\* have N - int(N * test_frac) rows, and row i of each comes from sample
\* i + int(N * test_frac) of the library
C19_SplitAligned ==
    call.fn = "train_gp_data" =>
        LET lib == call.spectra
            ti == CallTestInd
            rows == lib.nsamp - ti
            x == ret[1].xobs
            o == Val(ret[1].smoothed.out)
            level(s, f) == IF call.center_measure = S_median
                           THEN 2 * lib.gwb[s][f][2].v
                           ELSE 2 * lib.gwb[s][f][3].v - 477
            scatter(s, f) == np_std([q \in 1..3 |-> Fin(2 * lib.gwb[s][f][q].v)])
        IN  /\ ret[1].smoothed.error = NoError
            /\ Len(x.vals) = rows
            /\ \A i \in 1..rows : x.vals[i] = lib.sample_params[i + ti]
            /\ \A f \in DOMAIN o.yobs :
                  /\ Len(o.yobs[f].vals) = rows
                  /\ Len(o.yerr[f].vals) = rows
                  /\ \A i \in 1..rows :
                        /\ o.yerr[f].vals[i] = scatter(i + ti, f)
                        /\ o.yobs[f].vals[i].v + o.yobs_center[f].val.v = level(i + ti, f)

\* both functions skipped a leading sample and kept two
C19_Witness ==
    /\ call.fn = "train_gp_data"
    /\ CallTestInd = 1
    /\ Len(ret[1].xobs.vals) = 2
    /\ Len(Val(ret[1].smoothed.out).yobs[1].vals) = 2

----------------------------------------------------------------------------
(* The consumers of a collection *)

\* the chain of a model, under either of its names, or None
ChainOf(obj) ==
    IF ~IsNone(getattr(obj, "chain")) THEN obj.chain ELSE getattr(obj, "emcee_flatchain")

\* the center of a model, under either of its names, or None
CenterOf(obj) ==
    IF ~IsNone(getattr(obj, "center_spectra")) THEN obj.center_spectra
    ELSE getattr(obj, "mean_spectra")

\* a sample_hc_from_gp call has ended
SampleEnded == call.fn = "sample_hc_from_gp" /\ ~IsNone(ret)

Abs(n) == IF n < 0 THEN -n ELSE n

\* C13: in hc_from_gp a negative predicted variance is replaced by the
\* uncertainty 1e-5 * |mean|, which is never negative whatever the sign of the
\* mean, and is never reported as an error
C13_FloorNeverNegative ==
    call.fn = "hc_from_gp" =>
        /\ Val(ret).error = NoError
        /\ \A ii \in DOMAIN Val(ret).rho_pred :
              gp_predict(Val(locals).gp_list[ii], gp_george[ii].y, call.env_pars).var < 0
                 => /\ Val(ret).rho_pred[ii].sigma = Abs(Val(ret).rho_pred[ii].mean)
                    /\ Val(ret).rho_pred[ii].sigma >= 0

\* C14: sample_hc_from_gp called with F frequencies and nsamples = S returns a
\* table of S rows and F columns; the advisory is emitted exactly when
\* S < 100 and never keeps the table from being returned
C14_TableShape ==
    (SampleEnded /\ \A f \in 1..call.ntasks : ~IsNone(ChainOf(gp_george[f]))) =>
        /\ call.warned <=> call.nsamples < 100
        /\ Val(ret).error = NoError
        /\ ~IsNone(Val(ret).hc)
        /\ Len(Val(Val(ret).hc)) = call.nsamples
        /\ \A j \in 1..call.nsamples : Len(Val(Val(ret).hc)[j]) = call.ntasks

\* C15: whatever the order in which the workers finish, column f of the table
\* returned by sample_hc_from_gp holds the samples drawn from model f: its
\* targets, its center and rows of its chain
C15_ColumnsFollowModels ==
    (SampleEnded /\ Val(ret).error = NoError) =>
        \A j \in 1..call.nsamples : \A f \in 1..call.ntasks :
            LET e == Val(Val(ret).hc)[j][f]
            IN  /\ e.y = gp_george[f].y.bin
                /\ e.center = Val(CenterOf(gp_george[f]))
                /\ e.kparams \in SeqRange(Val(ChainOf(gp_george[f])))

\* the table was returned although the last model's worker finished first
C15_Witness ==
    /\ SampleEnded
    /\ Val(ret).error = NoError
    /\ call.ntasks >= 2
    /\ results[1].task = call.ntasks

\* C16: when a model has neither `chain` nor `emcee_flatchain`, the sampler
\* fails: the worker of that model reports the missing chain and raises, and
\* no table of samples is returned
C16_MissingChainFails ==
    /\ call.fn = "sample_hc_from_gp" =>
          \A k \in 1..Len(results) :
              IsNone(ChainOf(gp_george[results[k].task]))
                 => /\ results[k].result.error.type = "UnboundLocalError"
                    /\ results[k].result.printed = <<"Chains are not saved!">>
                    /\ results[k].result.hc = <<>>
    /\ (SampleEnded /\ \E f \in 1..call.ntasks : IsNone(ChainOf(gp_george[f])))
          => /\ Val(ret).error # NoError
             /\ IsNone(Val(ret).hc)

\* the workers ran on models without chains and the call raised
C16_Witness ==
    /\ SampleEnded
    /\ Len(results) = call.ntasks
    /\ IsNone(ChainOf(gp_george[1]))
    /\ Val(ret).error = Raise("UnboundLocalError", "chain_var")

\* C17: when the default file exists, train_gp writes the collection to the
\* name with the date and time appended and leaves the default file as it
\* was; it writes the default path only when that does not exist
C17_SaveKeepsDefault ==
    [][(pc = "fitted" /\ pc' = "saved") =>
          IF exists(files, DefaultFile)
          THEN /\ File(DatedFile, gp_george) \in files'
               /\ \A f \in files : f.name = DefaultFile => f \in files'
               /\ \A f \in files' : f.name = DefaultFile => f \in files
          ELSE /\ File(DefaultFile, gp_george) \in files'
               /\ files' = files \cup {File(DefaultFile, gp_george)}]_vars

\* a run saved beside an existing default file
C17_Witness ==
    /\ pc = "saved"
    /\ File(DefaultFile, OldPickle) \in files
    /\ File(DatedFile, gp_george) \in files

\* the fields fit_kernel_params writes
FitFields(obj) == <<obj.emcee_flatchain, obj.emcee_flatlnprob, obj.emcee_kernel_map,
                    obj.center_spectra>>

\* C18: the fit fields of a model are written once, by the populate loop of
\* fit_kernel_params; afterwards set_up_predictions, hc_from_gp and
\* sample_hc_from_gp leave every field of every model as it is, for any number
\* and order of calls
C18_ConsumersReadOnly ==
    [][/\ DOMAIN gp_george' = DOMAIN gp_george
       /\ \A f \in DOMAIN gp_george :
             gp_george'[f] # gp_george[f]
                => /\ pc = "populate" /\ freq_ind = f
                   /\ FitFields(gp_george[f]) = <<None, None, None, None>>
                   /\ \A i \in 1..4 : ~IsNone(FitFields(gp_george'[f])[i])
       /\ pc \in {"saved", "loaded"} => gp_george' = gp_george]_vars

\* every consumer has been called on a collection fitted in this run: the
\* last call, of sample_hc_from_gp, followed set_up_predictions
C18_Witness ==
    /\ pc = "saved"
    /\ SampleEnded
    /\ Val(ret).error = NoError
    /\ \A f \in DOMAIN gp_george : \A i \in 1..4 : ~IsNone(FitFields(gp_george[f])[i])

\* the quotient q is lo / hi
IsRatio(q, lo, hi) == q.k = "frac" /\ q.v[1] * hi = q.v[2] * lo
\* 0 < q <= 1
InUnitInterval(q) == q.k = "frac" /\ 0 < q.v[1] /\ q.v[1] <= q.v[2]
\* the larger and the smaller of two numbers
Larger(a, b) == IF a >= b THEN a ELSE b
Smaller(a, b) == IF a <= b THEN a ELSE b
\* the array whose last axis holds the pairs (m1[i], m2[i])
PairsArray(m1, m2) ==
    Array(m1.shape \o <<2>>,
          [k \in 1..(2 * Len(m1.a)) |->
             IF k % 2 = 1 THEN m1.a[(k + 1) \div 2] ELSE m2.a[k \div 2]])
\* a call of mtmr_from_m1m2 with two arguments of one shape
MtmrTwoArgs ==
    /\ call.fn = "mtmr_from_m1m2"
    /\ ~IsNone(call.m2)
    /\ call.m1.shape = Val(call.m2).shape

\* C21: mtmr_from_m1m2(m1, m2) returns the total mass m1 + m2 and the mass
\* ratio min(m1, m2) / max(m1, m2), element by element; swapping the two
\* arguments gives the same result; the ratio of two positive masses lies in
\* (0, 1]; and the one-argument call on the array of the pairs (m1, m2) gives
\* the same result as the two-argument call
C21_MtmrSymmetric ==
    MtmrTwoArgs =>
        LET m1 == call.m1
            m2 == Val(call.m2)
            r == ret[1]
            out == Val(r.out)
        IN  /\ r.error = NoError
            /\ out[1].shape = m1.shape /\ out[2].shape = m1.shape
            /\ \A i \in DOMAIN m1.a :
                  /\ out[1].a[i] = m1.a[i] + m2.a[i]
                  /\ Larger(m1.a[i], m2.a[i]) > 0
                        => IsRatio(out[2].a[i], Smaller(m1.a[i], m2.a[i]),
                                   Larger(m1.a[i], m2.a[i]))
                  /\ (m1.a[i] > 0 /\ m2.a[i] > 0) => InUnitInterval(out[2].a[i])
            /\ mtmr_from_m1m2(m2, Some(m1)) = r
            /\ mtmr_from_m1m2(PairsArray(m1, m2), None) = r

\* a call on two arrays of positive masses in which the first component is the
\* heavier one in one binary and the lighter one in another
C21_Witness ==
    /\ MtmrTwoArgs
    /\ ret[1].error = NoError
    /\ \A i \in DOMAIN call.m1.a : call.m1.a[i] > 0 /\ Val(call.m2).a[i] > 0
    /\ \E i, j \in DOMAIN call.m1.a :
          /\ call.m1.a[i] > Val(call.m2).a[i]
          /\ call.m1.a[j] < Val(call.m2).a[j]

\* the center statistic of one frequency's column
CenterStatistic(stat, ys) ==
    IF stat = "median" THEN np_median_log(ys) ELSE np_mean_log(ys)
\* a + b on values of logarithms
LogSum(a, b) == IF np_isfinite(a) /\ np_isfinite(b) THEN Fin(a.v + b.v) ELSE NaN

\* C22: the targets returned by get_smoothed_gwb are zero-centered per
\* frequency: the selected center statistic (mean or median over the training
\* samples) of the returned targets is zero, and the returned center of the
\* frequency added to a sample's target gives the sample's smoothed curve
C22_ZeroCentered ==
    (/\ call.fn = "get_smoothed_gwb"
     /\ ret[1].error = NoError
     /\ Len(ret[1].gwb_spectra) > 0) =>
        LET r == ret[1]
            o == Val(r.out)
        IN  \A f \in DOMAIN o.yobs :
              /\ CenterStatistic(o.yobs[f].stat, o.yobs[f].vals) = Fin(0)
              /\ \A i \in DOMAIN o.yobs[f].vals :
                    LogSum(o.yobs[f].vals[i], o.yobs_center[f].val)
                        = r.smooth_center[i][f]

\* x > 100 for a parameter value read from the library
Exceeds100(x) == x = PInf \/ (x.k = "pow" /\ x.v > 2000)
\* the call's parameter list, the position of mmb_amp in it (0: absent), and
\* the raw value of parameter k in training row i
CallPars == call.spectra.pars
AmpColumn == IF \E k \in DOMAIN CallPars : CallPars[k] = "mmb_amp"
             THEN CHOOSE k \in DOMAIN CallPars : CallPars[k] = "mmb_amp"
             ELSE 0
RawParam(i, k) == call.spectra.sample_params[i + CallTestInd][k]
AmpIsRaw ==
    /\ AmpColumn # 0
    /\ \E i \in 1..(call.spectra.nsamp - CallTestInd) : Exceeds100(RawParam(i, AmpColumn))

\* C23: get_parameter_values replaces the mmb_amp column by its base-10
\* logarithm exactly when the parameter is present and at least one training
\* row holds a value of it above 100; every other column holds the recorded
\* raw values, and when no value is above 100 the whole matrix does
C23_AmpLogRule ==
    call.fn = "get_parameter_values" =>
        LET x == ret[1].vals
        IN  /\ Len(x) = call.spectra.nsamp - CallTestInd
            /\ \A i \in DOMAIN x : \A k \in DOMAIN CallPars :
                  /\ k # AmpColumn => x[i][k] = RawParam(i, k)
                  /\ (k = AmpColumn /\ AmpIsRaw) =>
                        x[i][k] = (CASE RawParam(i, k).k = "pow" -> Fin(RawParam(i, k).v)
                                     [] RawParam(i, k).k = "zero" -> NInf
                                     [] OTHER -> RawParam(i, k))
                  /\ (k = AmpColumn /\ ~AmpIsRaw) => x[i][k] = RawParam(i, k)

\* a call whose training rows hold one amplitude above 100 and one below, both returned as
\* logarithms, while a skipped leading row is left out of the decision
C23_Witness ==
    /\ call.fn = "get_parameter_values"
    /\ CallTestInd = 1
    /\ AmpIsRaw
    /\ \E i, j \in DOMAIN ret[1].vals :
          /\ RawParam(i, AmpColumn) = Pow(8500) /\ ret[1].vals[i][AmpColumn] = Fin(8500)
          /\ RawParam(j, AmpColumn) = Pow(929) /\ ret[1].vals[j][AmpColumn] = Fin(929)

\* C24: create_gp_kernels builds exactly one GaussProc per frequency bin, the
\* model of bin f holding column f of the targets and column f of the
\* uncertainties; every model holds the same parameter-bounds record, whose
\* min and max for each named parameter are the smallest and the largest value
\* of that parameter's column of the design matrix; once the fit results are
\* stored, the center kept by model f is the center removed from frequency f
C24_OneModelPerBin ==
    gp_george # <<>> =>
        LET l == Val(locals)
        IN  /\ Len(gp_george) = Len(l.gp_freqs)
            /\ \A f \in DOMAIN gp_george :
                  /\ gp_george[f].y = l.yobs[f] /\ l.yobs[f].bin = f
                  /\ gp_george[f].yerr = l.yerr[f] /\ l.yerr[f].bin = f
                  /\ gp_george[f].x = l.xobs
                  /\ gp_george[f].par_dict = gp_george[1].par_dict
                  /\ ~IsNone(gp_george[f].center_spectra) =>
                        Val(gp_george[f].center_spectra) = l.yobs_center[f]
                  /\ pc \in {"fitted", "saved"} => ~IsNone(gp_george[f].center_spectra)
            /\ DOMAIN gp_george[1].par_dict = SeqToSet(l.pars)
            /\ \A k \in DOMAIN l.pars :
                  LET b == gp_george[1].par_dict[l.pars[k]]
                      rows == DOMAIN l.xobs.vals
                  IN  /\ \E i \in rows : l.xobs.vals[i][k] = b.min
                      /\ \E i \in rows : l.xobs.vals[i][k] = b.max
                      /\ \A i \in rows :
                            /\ par_key(b.min) <= par_key(l.xobs.vals[i][k])
                            /\ par_key(l.xobs.vals[i][k]) <= par_key(b.max)

\* a fitted collection of two models whose bounds record has distinct ends
C24_Witness ==
    /\ pc = "fitted"
    /\ Len(gp_george) = 2
    /\ gp_george[1].y # gp_george[2].y
    /\ \A f \in DOMAIN gp_george : ~IsNone(gp_george[f].center_spectra)
    /\ \E par \in DOMAIN gp_george[1].par_dict :
          gp_george[1].par_dict[par].min # gp_george[1].par_dict[par].max

\* C25: fit_kernel_params attaches the fit results all or nothing: no model
\* has its chain, its log-posterior values, its MAP vector or its center set
\* before the production run of the last frequency bin has returned, so that
\* after a failure in a stage of a bin every model is still unfitted
C25_FitAllOrNothing ==
    /\ (\E f \in DOMAIN gp_george : \E i \in 1..4 :
            ~IsNone(FitFields(gp_george[f])[i]))
          => (Bins = DOMAIN gp_george /\ \A f \in Bins : stage[f] = "Done")
    /\ (pc = "failed" /\ \E f \in Bins : stage[f] # "Done")
          => \A f \in DOMAIN gp_george : \A i \in 1..4 :
                IsNone(FitFields(gp_george[f])[i])

\* a run that failed in a stage of a bin, with models constructed
C25_Witness ==
    /\ pc = "failed"
    /\ gp_george # <<>>
    /\ \E f \in Bins : stage[f] \in RunStages
    /\ \A f \in DOMAIN gp_george : \A i \in 1..4 : IsNone(FitFields(gp_george[f])[i])

\* the model a call of lnprob was made on
LnprobModel == [EvalModel(Len(call.p) - 1, call.bin) EXCEPT !.kernel = call.kernel]
\* a component of the vector lies outside [-20, 20]
OutsideBox(p) == \E i \in DOMAIN p : p[i] > 20 \/ p[i] < -20
\* the likelihood of the call raises an exception that lnlike does not catch
LikelihoodRaises == lnlike(LnprobModel, call.p).error # NoError

\* C26: lnprob is -inf for every hyperparameter vector with a component outside
\* the +-20 box and for every vector at which the factorization of the
\* covariance is singular; it is finite only for a vector inside the box with a
\* finite likelihood; the likelihood is evaluated outside the box as well, so
\* that an exception of the likelihood other than the singular-matrix error
\* propagates from there too
C26_LnprobBoxAndSingular ==
    call.fn = "lnprob" =>
        LET r == ret[1]
            p == call.p
        IN  /\ ~LikelihoodRaises =>
                  /\ r.error = NoError
                  /\ OutsideBox(p) => r.val = NegInf
                  /\ GPSingular(LnprobModel, p) => r.val = NegInf
                  /\ r.val # NegInf =>
                        /\ ~OutsideBox(p)
                        /\ lnlike(LnprobModel, p).val # NegInf
                  /\ (~OutsideBox(p) /\ ~GPSingular(LnprobModel, p)) => r.val # NegInf
            /\ LikelihoodRaises => r.error = lnlike(LnprobModel, p).error

\* a call outside the box whose likelihood raised, and the exception came out
C26_Witness ==
    /\ call.fn = "lnprob"
    /\ OutsideBox(call.p)
    /\ LikelihoodRaises
    /\ ret[1].error.type = "AttributeError"

\* C27: sample_hc_from_gp returns its table on every host with at least one
\* core: the pool it creates, of cpu_count() - 1 workers, has at least one
\* worker
C27_PoolHasWorker ==
    call.fn = "sample_hc_from_gp" =>
        /\ call.cpus >= 1 => call.cpus - 1 >= 1
        /\ (SampleEnded /\ \A f \in 1..call.ntasks : ~IsNone(ChainOf(gp_george[f])))
              => ~IsNone(Val(ret).hc)

\* the bins whose pool is open
PoolBins == {q.bin : q \in pool}

\* the pool changes only by the creation of the pool of the bin that leaves
\* Pending, while no pool is open, or by the shutdown of every open pool
PoolStep ==
    pool' # pool =>
        \/ /\ pool = {}
           /\ \E q \in pool' :
                 /\ pool' = {q}
                 /\ q.bin = freq_ind
                 /\ stage[q.bin] = "Pending" /\ stage'[q.bin] = "Initialize"
        \/ pool' = {}

\* at most one pool is open; it is the pool of the bin in its stages, of
\* min(nwalkers // 2, cpu_count()) processes; none is open once
\* fit_kernel_params has returned or failed
PoolState ==
    /\ Cardinality(pool) <= 1
    /\ \A q \in pool :
          /\ \E cpus \in FitCpuCounts :
                /\ q.processes <= cfg.nwalkers \div 2 /\ q.processes <= cpus
                /\ q.processes \in {cfg.nwalkers \div 2, cpus}
          /\ pc = "fit" /\ q.bin = freq_ind
    /\ \A f \in Bins :
          /\ stage[f] \in RunStages \cup {"Initialize"} => (pc = "fit" <=> f \in PoolBins)
          /\ stage[f] \in {"Pending", "Done"} => f \notin PoolBins
    /\ pc # "fit" => pool = {}

\* C28: fit_kernel_params creates one worker pool per frequency bin, of
\* min(nwalkers // 2, cpu_count()) processes, uses it for the three stages of
\* that bin and shuts it down before the pool of the next bin is created, also
\* when a stage raises; at most one pool exists at any time and none remains
\* after the function has returned or failed
C28_OnePoolPerBin == [][PoolStep]_vars /\ []PoolState

\* the run failed in a stage of a bin whose pool was open, and no pool is left
C28_Witness ==
    /\ pc = "failed"
    /\ \E f \in Bins : stage[f] \in RunStages
    /\ pool = {}

\* the names under which the fit results are looked for, current and legacy
FitNames == {"emcee_kernel_map", "kernel_map", "emcee_flatchain", "chain",
             "center_spectra", "mean_spectra"}
\* a model that was constructed and never fitted
Unfitted(obj) == \A name \in FitNames : IsNone(getattr(obj, name))
\* the collection at hand holds models that were never fitted, and no others
UnfittedCollection == gp_george # <<>> /\ \A f \in DOMAIN gp_george : Unfitted(gp_george[f])

\* C29: no prediction is produced from an unfitted model: set_up_predictions,
\* hc_from_gp and sample_hc_from_gp called on a collection whose models were
\* constructed and never fitted (MAP, chain and center None under the current
\* and the legacy names) fail; they return no reconstructed models, no strains
\* and no samples
C29_UnfittedNeverPredicts ==
    (UnfittedCollection /\ ~IsNone(ret)) =>
        /\ call.fn = "set_up_predictions" =>
              Val(ret).error # NoError /\ Val(ret).gp_list = <<>>
        /\ call.fn = "hc_from_gp" =>
              Val(ret).error # NoError /\ Val(ret).hc = <<>> /\ Val(ret).rho = <<>>
        /\ call.fn = "sample_hc_from_gp" =>
              Val(ret).error # NoError /\ IsNone(Val(ret).hc)

\* the workers of sample_hc_from_gp were handed unfitted models, and the
\* exception of a worker ended the call
C29_Witness ==
    /\ UnfittedCollection
    /\ SampleEnded
    /\ call.cpus >= 2
    /\ Len(results) = call.ntasks
    /\ Val(ret).error = Raise("UnboundLocalError", "chain_var")

\* the name an object's field is read under, when `first` is tried before
\* `second`
NameRead(obj, first, second) == IF ~IsNone(getattr(obj, first)) THEN first ELSE second

\* a model constructed and fitted by this version: the legacy fields are None
ThisVersion(obj) ==
    /\ IsNone(getattr(obj, "kernel_map")) /\ IsNone(getattr(obj, "chain"))
    /\ IsNone(getattr(obj, "mean_spectra"))
    /\ ~IsNone(getattr(obj, "emcee_kernel_map"))
    /\ ~IsNone(getattr(obj, "emcee_flatchain"))
    /\ ~IsNone(getattr(obj, "center_spectra"))

\* C30: the resolution of a field name gives the legacy name precedence (MAP:
\* kernel_map, chain: chain, center: mean_spectra) and, in set_up_predictions
\* and hc_from_gp, is decided from the first model and applied to every model;
\* on a collection constructed and fitted by this version the MAP is read from
\* emcee_kernel_map, the chain from emcee_flatchain and the center from
\* center_spectra, also when a center is 0.0
C30_LegacyPrecedence ==
    /\ (call.fn = "set_up_predictions" /\ Val(ret).error = NoError) =>
          \A ii \in DOMAIN Val(ret).gp_list :
              Val(ret).gp_list[ii].kparams =
                  Val(getattr(gp_george[ii],
                              NameRead(gp_george[1], "kernel_map", "emcee_kernel_map")))
    /\ (call.fn = "hc_from_gp" /\ Val(ret).error = NoError) =>
          \A ii \in DOMAIN Val(ret).rho :
              Val(ret).rho[ii] =
                  FPlus(Val(getattr(gp_george[ii],
                                    NameRead(gp_george[1], "mean_spectra", "center_spectra"))).val,
                        Val(ret).rho_pred[ii].mean)
    /\ (SampleEnded /\ Val(ret).error = NoError) =>
          \A j \in 1..call.nsamples : \A f \in 1..call.ntasks :
              LET e == Val(Val(ret).hc)[j][f]
                  obj == gp_george[f]
              IN  /\ e.center = Val(getattr(obj, NameRead(obj, "mean_spectra", "center_spectra")))
                  /\ e.kparams \in SeqRange(Val(getattr(obj, NameRead(obj, "chain",
                                                                      "emcee_flatchain"))))
    /\ (~IsNone(ret) /\ gp_george # <<>> /\ \A f \in DOMAIN gp_george : ThisVersion(gp_george[f])) =>
          /\ call.fn \in {"set_up_predictions", "hc_from_gp"} => Val(ret).error = NoError
          /\ call.fn = "sample_hc_from_gp" =>
                Val(ret).error.type \notin {"UnboundLocalError", "TypeError"}

====
